---- MODULE Spec2Model ----
(***************************************************************************)
(* Verification model of the Cypher-to-SQL equivalence checker.            *)
(*                                                                         *)
(*  - graphiti/cypher/parser_fw.py, graphiti/pipeline/transpile.py and     *)
(*    graphiti/sqlir/printer.py: the pipeline  text -> AST -> IR -> SQL.   *)
(*  - backend/core/cli_verieql.py: the verify worker and the bounded       *)
(*    search driver process_ends_with_max_timeout.                         *)
(*  - graphiti/pipeline/reduce_sql.py: table_equivalent on result rows.    *)
(*  - graphiti/schema/graph_schema.py and graphiti/pipeline/infer_sdt.py:  *)
(*    building a GraphSchema and inferring its tables and SDT.             *)
(***************************************************************************)
EXTENDS Integers, Sequences, FiniteSets, TLC

VARIABLES
    \* ---- transpile pipeline -------------------------------------------
    text,       \* the Cypher query handed to parse_query
    query,      \* parse_query's AST (or the exception it raised)
    sql_ir,     \* transpile_query's IR (or the exception it raised)
    sql_text,   \* to_sql's text
    tpc,        \* position in the pipeline
    \* ---- bounded search driver and its worker -------------------------
    dpc,            \* position of process_ends_with_max_timeout
    max_bound_size, \* its argument (--bound_size)
    result,         \* its result dict: states, times, counterexample, err
    bound_size,     \* its local bound_size
    elapsed,        \* time.time() - start, in ticks
    queue,          \* the result queue, oldest first
    procs,          \* every Process started, in order: where verify is, its
                    \* Environment and locals, and whether it is alive
    pair,           \* the input pair as far as compare() looks at it
    hist,           \* history: every worker started, every read of the queue
    \* ---- result comparison (reduce_sql) --------------------------------
    rows1,      \* first argument of table_equivalent
    rows2,      \* second argument of table_equivalent
    equiv,      \* what table_equivalent returned or raised (None before the call)
    \* ---- graph schema and infer_sdt -----------------------------------
    gschema,    \* the GraphSchema: nodes and edges, in insertion order
    last,       \* the last constructor or add_* call and the exception it raised
    inferred,   \* what infer_sdt returned or raised (None before the call)
    \* ---- backend EquivalenceVerifier ----------------------------------
    backend,      \* self.backend of the EquivalenceVerifier
    cypher_query, \* first argument of the last verify call
    sql_query,    \* second argument of the last verify call
    report,       \* the EquivalenceReport it returned (None before the call)
    verified,     \* number of verify calls so far
    \* ---- symbolic database of the bounded verifier (Environment) --------
    databases,      \* self.databases: the tables created, each with its tuple sorts
    NON_DEL_TUPLES, \* verify's NON_DEL_TUPLES: the tuples not yet popped
    DBMS_facts,     \* self.DBMS_facts, oldest first
    constraint,     \* the constraint list handed to add_constraints (None before the call)
    model,          \* the solver's model of the facts, or the exception verify
                    \* caught (None before either)
    \* ---- three-valued connectives (utils) ------------------------------
    nulls,      \* first argument of encode_concate_by_and / _or
    values,     \* second argument
    concat,     \* the FExpressionTuple returned, with the connective (None before the call)
    \* ---- benchmark run (train) -----------------------------------------
    benchmark,  \* number of lines (input pairs) of args.file
    num_cores,  \* args.num_cores
    train_pc,   \* position of train
    count,      \* its local count
    core_procs, \* every call of core, in the order of worker_idx
    files,      \* the file each call of core writes
    out_file    \* args.out_file as train leaves it

tvars == <<text, query, sql_ir, sql_text, tpc>>
dvars == <<dpc, max_bound_size, result, bound_size, elapsed, queue, procs, pair, hist>>
qvars == <<rows1, rows2, equiv>>
svars == <<gschema, last, inferred>>
bvars == <<backend, cypher_query, sql_query, report, verified>>
cvars == <<databases, NON_DEL_TUPLES, DBMS_facts, constraint, model>>
kvars == <<nulls, values, concat>>
wvars == <<benchmark, num_cores, train_pc, count, core_procs, files, out_file>>
yvars == <<cvars, kvars, wvars>>
xvars == <<bvars, yvars>>
evars == <<qvars, svars, xvars>>
vars == <<tvars, dvars, qvars, svars, xvars>>

\* Python's None
None == [none |-> TRUE]

\* a raised exception, as a value
Raise(exc) == [node |-> "raise", exc |-> exc]

IsRaise(v) == "node" \in DOMAIN v /\ v.node = "raise"

(***************************************************************************)
(* Bounds of the model                                                     *)
(***************************************************************************)
MaxSegs == 2        \* edge-node segments of a path pattern
MaxReturn == 3      \* RETURN items
MaxBoundArg == 2    \* largest --bound_size tried
LadderCap == 3      \* bounds the model follows the ladder through
MaxTicks == 2       \* the timeout, in clock ticks
MaxRows == 3        \* rows of a result table
MaxCols == 3        \* columns of a result table
MaxCells == 6       \* rows times columns of a result table
MaxRaggedRows == 2  \* rows of a table whose rows differ in length
MaxKeys == 2        \* keys of a node type
MaxPieces == 4      \* pieces of a pattern text that need not alternate
MaxWords == 5       \* words of a WHERE text
MaxVerifies == 2    \* verify calls on one EquivalenceVerifier

(***************************************************************************)
(* Cypher AST (graphiti/cypher/ast.py)                                     *)
(***************************************************************************)
NodePat(var, label) == [type |-> "NodePat", var |-> var, label |-> label]

EdgePat(var, label, direction) ==
    [type |-> "EdgePat", var |-> var, label |-> label, direction |-> direction]

PathPat(items) == [type |-> "PathPat", items |-> items]

ExprProp(var, key) == [type |-> "ExprProp", var |-> var, key |-> key]

ExprAgg(fn, expr) == [type |-> "ExprAgg", fn |-> fn, expr |-> expr]

ExprVar(name) == [type |-> "ExprVar", name |-> name]

\* Python int and str values used as expressions
PyInt(n) == [type |-> "int", ival |-> n]

PyStr(s) == [type |-> "str", sval |-> s]

PredicateCompare(left, op, right) ==
    [type |-> "PredicateCompare", left |-> left, op |-> op, right |-> right]

PredicateAnd(left, right) == [type |-> "PredicateAnd", left |-> left, right |-> right]

PredicateOr(left, right) == [type |-> "PredicateOr", left |-> left, right |-> right]

PredicateNot(sub) == [type |-> "PredicateNot", sub |-> sub]

\* ClauseOptMatch is declared as a subclass of ClauseMatch: cls is the class
\* of the instance, bases the classes isinstance() accepts it for.
ClauseMatch(pattern, where) ==
    [cls |-> "ClauseMatch", bases |-> {"ClauseMatch"},
     pattern |-> pattern, where |-> where]

ClauseOptMatch(pattern, where) ==
    [cls |-> "ClauseOptMatch", bases |-> {"ClauseOptMatch", "ClauseMatch"},
     pattern |-> pattern, where |-> where]

isinstance(obj, cls) == cls \in obj.bases

ReturnQuery(clause, exprs, names) ==
    [type |-> "ReturnQuery", clause |-> clause, exprs |-> exprs, names |-> names]

(***************************************************************************)
(* SQL IR (graphiti/sqlir/ir.py)                                           *)
(***************************************************************************)
SQLExpr(kind, args) == [kind |-> kind, args |-> args]

Predicate(kind, args) == [kind |-> kind, args |-> args]

FromTable(table, alias) == [node |-> "FromTable", table |-> table, alias |-> alias]

Join(left, right, on, kind) ==
    [node |-> "Join", left |-> left, right |-> right, on |-> on, kind |-> kind]

Project(sub, items) == [node |-> "Project", sub |-> sub, items |-> items]

GroupBy(sub, keys, items) ==
    [node |-> "GroupBy", sub |-> sub, keys |-> keys, items |-> items, having |-> None]

Select(sub, pred) == [node |-> "Select", sub |-> sub, pred |-> pred]

(***************************************************************************)
(* str.lower() and str.upper() on the identifiers of the model             *)
(***************************************************************************)
lower(s) ==
    CASE s = "Person" -> "person"
      [] s = "Company" -> "company"
      [] s = "WORKS_AT" -> "works_at"
      [] s = "Ghost" -> "ghost"
      [] OTHER -> s

upper(s) ==
    CASE s = "match" -> "MATCH"
      [] s = "optional" -> "OPTIONAL"
      [] s = "count" -> "COUNT"
      [] s = "sum" -> "SUM"
      [] OTHER -> s

(***************************************************************************)
(* The induced relational schema of the test schema                        *)
(*   Person{pid,name}, Company{cid,title}, WORKS_AT{wid}: Person->Company  *)
(***************************************************************************)
Table(name, attrs, pk, fks) == [name |-> name, attrs |-> attrs, pk |-> pk, fks |-> fks]

rschema ==
    [person |-> Table("person", <<"pid", "name">>, "pid", <<>>),
     company |-> Table("company", <<"cid", "title">>, "cid", <<>>),
     works_at |-> Table("works_at", <<"wid", "SRC", "TGT">>, "wid",
                        [SRC |-> <<"person", "pid">>, TGT |-> <<"company", "cid">>])]

\* RelationalSchema.get_table: the table, or KeyError
get_table(schema, name) ==
    IF name \in DOMAIN schema THEN schema[name] ELSE Raise("KeyError")

_resolve_node_table(node, schema) == get_table(schema, lower(node.label))

_resolve_edge_table(edge, schema) == get_table(schema, lower(edge.label))

(***************************************************************************)
(* graphiti/pipeline/transpile.py                                          *)
(***************************************************************************)
expr_column(alias, column) == SQLExpr("column", <<alias, column>>)

expr_star == SQLExpr("star", <<>>)

\* isinstance(value, (int, float)) decides the kind
expr_literal(value) ==
    SQLExpr(IF value.type = "int" THEN "number" ELSE "string", <<value>>)

expr_func(name, args) == SQLExpr("func", <<upper(name)>> \o args)

pred_cmp(op, left, right) == Predicate("cmp", <<op, left, right>>)

pred_and(left, right) == Predicate("and", <<left, right>>)

pred_or(left, right) == Predicate("or", <<left, right>>)

pred_not(sub) == Predicate("not", <<sub>>)

is_agg_expr(expr) == expr.type = "ExprAgg"

RECURSIVE to_sql_expr(_)
to_sql_expr(expr) ==
    CASE expr.type = "ExprProp" -> expr_column(expr.var, expr.key)
      [] expr.type = "ExprAgg" ->
            LET inner == to_sql_expr(expr.expr)
            IN  IF IsRaise(inner) THEN inner ELSE expr_func(expr.fn, <<inner>>)
      [] expr.type = "ExprVar" -> Raise("NotImplementedError")
      [] expr.type = "int" -> expr_literal(expr)
      [] expr.type = "str" ->
            IF expr.sval = "*" THEN expr_star ELSE expr_literal(expr)
      [] OTHER -> Raise("TypeError")

RECURSIVE to_sql_pred(_)
to_sql_pred(predicate) ==
    CASE predicate.type = "PredicateCompare" ->
            LET left == to_sql_expr(predicate.left)
                right == to_sql_expr(predicate.right)
            IN  IF IsRaise(left) THEN left
                ELSE IF IsRaise(right) THEN right
                ELSE pred_cmp(predicate.op, left, right)
      [] predicate.type = "PredicateAnd" ->
            LET left == to_sql_pred(predicate.left)
                right == to_sql_pred(predicate.right)
            IN  IF IsRaise(left) THEN left
                ELSE IF IsRaise(right) THEN right
                ELSE pred_and(left, right)
      [] predicate.type = "PredicateOr" ->
            LET left == to_sql_pred(predicate.left)
                right == to_sql_pred(predicate.right)
            IN  IF IsRaise(left) THEN left
                ELSE IF IsRaise(right) THEN right
                ELSE pred_or(left, right)
      [] predicate.type = "PredicateNot" ->
            LET sub == to_sql_pred(predicate.sub)
            IN  IF IsRaise(sub) THEN sub ELSE pred_not(sub)
      [] OTHER -> Raise("TypeError")

\* pattern_loop with the undirected edge "--" joined like "<-"
RECURSIVE pattern_loop_undirected_back(_, _, _, _, _, _, _)
pattern_loop_undirected_back(items, schema, outer, idx, vars_available, rel, prev) ==
    IF ~(idx <= Len(items)) THEN [vars |-> vars_available, rel |-> rel]
    ELSE IF idx + 1 > Len(items) THEN Raise("IndexError")
    ELSE
      LET edge == items[idx]
          node == items[idx + 1]
          edge_table == _resolve_edge_table(edge, schema)
          node_table == _resolve_node_table(node, schema)
          join_kind == IF outer THEN "left" ELSE "inner"
          back == edge.direction # "->"
          rel1 == Join(rel, FromTable(edge_table.name, edge.var),
                       pred_cmp("=", expr_column(prev.node.var, prev.table.pk),
                                expr_column(edge.var, IF back THEN "TGT" ELSE "SRC")),
                       join_kind)
          rel2 == Join(rel1, FromTable(node_table.name, node.var),
                       pred_cmp("=", expr_column(edge.var, IF back THEN "SRC" ELSE "TGT"),
                                expr_column(node.var, node_table.pk)),
                       join_kind)
      IN  IF IsRaise(edge_table) THEN edge_table
          ELSE IF IsRaise(node_table) THEN node_table
          ELSE IF "direction" \notin DOMAIN edge THEN Raise("AttributeError")
          ELSE pattern_loop_undirected_back(items, schema, outer, idx + 2,
                            vars_available \cup {edge.var, node.var}, rel2,
                            [node |-> node, table |-> node_table])

\* One turn of transpile_pattern's while loop and the turns after it:
\* items[idx] is the edge, items[idx + 1] the node (idx counts from 1 here,
\* from 0 in the source).
RECURSIVE pattern_loop(_, _, _, _, _, _, _)
pattern_loop(items, schema, outer, idx, vars_available, rel, prev) ==
    IF ~(idx <= Len(items)) THEN [vars |-> vars_available, rel |-> rel]
    ELSE IF idx + 1 > Len(items) THEN Raise("IndexError")
    ELSE
      LET edge == items[idx]
          node == items[idx + 1]
          edge_table == _resolve_edge_table(edge, schema)
          node_table == _resolve_node_table(node, schema)
          join_kind == IF outer THEN "left" ELSE "inner"
          left1 == expr_column(prev.node.var, prev.table.pk)
          right1 == IF edge.direction = "<-"
                    THEN expr_column(edge.var, "TGT")
                    ELSE expr_column(edge.var, "SRC")
          rel1 == Join(rel, FromTable(edge_table.name, edge.var),
                       pred_cmp("=", left1, right1), join_kind)
          left2 == IF edge.direction = "<-"
                   THEN expr_column(edge.var, "SRC")
                   ELSE expr_column(edge.var, "TGT")
          right2 == expr_column(node.var, node_table.pk)
          rel2 == Join(rel1, FromTable(node_table.name, node.var),
                       pred_cmp("=", left2, right2), join_kind)
      IN  IF IsRaise(edge_table) THEN edge_table
          ELSE IF IsRaise(node_table) THEN node_table
          ELSE IF "direction" \notin DOMAIN edge THEN Raise("AttributeError")
          ELSE pattern_loop(items, schema, outer, idx + 2,
                            vars_available \cup {edge.var, node.var}, rel2,
                            [node |-> node, table |-> node_table])

transpile_pattern(pattern, schema, outer) ==
    LET items == pattern.items
    IN  IF items = <<>> \/ items[1].type # "NodePat" THEN Raise("ValueError")
        ELSE LET node0 == items[1]
                 table0 == _resolve_node_table(node0, schema)
             IN  IF IsRaise(table0) THEN table0
                 ELSE pattern_loop(items, schema, outer, 2, {node0.var},
                                   FromTable(table0.name, node0.var),
                                   [node |-> node0, table |-> table0])

\* the tail shared by both branches: the optional WHERE wrapper
clause_where(clause, got) ==
    IF IsRaise(got) THEN got
    ELSE IF clause.where # None
         THEN LET pred == to_sql_pred(clause.where)
              IN  IF IsRaise(pred) THEN pred
                  ELSE [vars |-> got.vars, rel |-> Select(got.rel, pred)]
         ELSE got

transpile_clause(clause, schema) ==
    IF isinstance(clause, "ClauseMatch")
    THEN clause_where(clause, transpile_pattern(clause.pattern, schema, FALSE))
    ELSE IF isinstance(clause, "ClauseOptMatch")
    THEN clause_where(clause, transpile_pattern(clause.pattern, schema, TRUE))
    ELSE IF isinstance(clause, "ClauseWith") THEN Raise("NotImplementedError")
    ELSE Raise("TypeError")

\* repr() of an SQLExpr dataclass: "SQLExpr(kind='column', args=('p', 'pid'))";
\* a str prints quoted, an int as its digits, a one-element tuple as "(x,)"
repr_str(x) == "'" \o x \o "'"

RECURSIVE repr(_)
repr(v) ==
    LET args == CASE v.kind = "column" -> repr_str(v.args[1]) \o ", " \o repr_str(v.args[2])
                  [] v.kind = "star" -> ""
                  [] v.kind = "number" -> ToString(v.args[1].ival) \o ","
                  [] v.kind = "string" -> repr_str(v.args[1].sval) \o ","
                  [] v.kind = "func" -> repr_str(v.args[1]) \o ", " \o repr(v.args[2])
    IN  "SQLExpr(kind='" \o v.kind \o "', args=(" \o args \o "))"

\* dedup_keys that never records what it has seen
RECURSIVE dedup_keys_unseen(_, _, _)
dedup_keys_unseen(keys, dedup, seen) ==
    IF keys = <<>> THEN dedup
    ELSE LET key == Head(keys)
         IN  IF repr(key) \notin seen
             THEN dedup_keys_unseen(Tail(keys), Append(dedup, key), seen)
             ELSE dedup_keys_unseen(Tail(keys), dedup, seen)

\* the loop that removes duplicate keys, by repr
RECURSIVE dedup_keys(_, _, _)
dedup_keys(keys, dedup, seen) ==
    IF keys = <<>> THEN dedup
    ELSE LET key == Head(keys)
             key_repr == repr(key)
         IN  IF key_repr \notin seen
             THEN dedup_keys(Tail(keys), Append(dedup, key), seen \cup {key_repr})
             ELSE dedup_keys(Tail(keys), dedup, seen)

\* zip that pairs each name with the expression after its own
zip_shifted(xs, ys) ==
    [i \in 1..(IF Len(xs) < Len(ys) THEN Len(xs) ELSE Len(ys)) |->
        <<xs[i], ys[IF i < Len(ys) THEN i + 1 ELSE 1]>>]

\* zip(names, exprs): as long as the shorter of the two
zip(xs, ys) ==
    [i \in 1..(IF Len(xs) < Len(ys) THEN Len(xs) ELSE Len(ys)) |-> <<xs[i], ys[i]>>]

\* the first exception a list comprehension over f raises, if any
first_raise(vals) ==
    IF \E i \in 1..Len(vals) : IsRaise(vals[i])
    THEN vals[CHOOSE i \in 1..Len(vals) :
                 IsRaise(vals[i]) /\ \A j \in 1..(i - 1) : ~IsRaise(vals[j])]
    ELSE None

RECURSIVE select_seq(_, _)
select_seq(xs, keep) ==
    IF xs = <<>> THEN <<>>
    ELSE (IF keep[1] THEN <<Head(xs)>> ELSE <<>>)
            \o select_seq(Tail(xs), Tail(keep))

RECURSIVE transpile_query(_, _)
transpile_query(q, schema) ==
    CASE q.type = "ReturnQuery" ->
            LET got == transpile_clause(q.clause, schema)
                sql_exprs == [i \in 1..Len(q.exprs) |-> to_sql_expr(q.exprs[i])]
                items == zip(q.names, sql_exprs)
                is_agg == [i \in 1..Len(q.exprs) |-> is_agg_expr(q.exprs[i])]
                keys == select_seq(sql_exprs, [i \in 1..Len(is_agg) |-> ~is_agg[i]])
            IN  IF IsRaise(got) THEN got
                ELSE IF first_raise(sql_exprs) # None THEN first_raise(sql_exprs)
                ELSE IF \E i \in 1..Len(is_agg) : is_agg[i]
                     THEN GroupBy(got.rel, dedup_keys(keys, <<>>, {}), items)
                     ELSE Project(got.rel, items)
      [] q.type = "OrderBy" ->
            LET sub == transpile_query(q.sub, schema)
                key == to_sql_expr(q.key)
            IN  IF IsRaise(sub) THEN sub
                ELSE IF IsRaise(key) THEN key
                ELSE [node |-> "OrderByIR", sub |-> sub, key |-> key, asc |-> q.asc]
      [] q.type = "UnionQuery" ->
            LET left == transpile_query(q.left, schema)
                right == transpile_query(q.right, schema)
            IN  IF IsRaise(left) THEN left
                ELSE IF IsRaise(right) THEN right
                ELSE [node |-> "UnionIR", left |-> left, right |-> right, all |-> q.all]
      [] OTHER -> Raise("TypeError")

(***************************************************************************)
(* graphiti/sqlir/printer.py                                               *)
(***************************************************************************)
RECURSIVE _sql_expr(_)
_sql_expr(expr) ==
    CASE expr.kind = "column" -> expr.args[1] \o "." \o expr.args[2]
      [] expr.kind = "star" -> "*"
      [] expr.kind = "number" -> ToString(expr.args[1].ival)
      [] expr.kind = "string" -> "'" \o expr.args[1].sval \o "'"
      [] expr.kind = "func" -> expr.args[1] \o "(" \o _sql_expr(expr.args[2]) \o ")"
      [] OTHER -> "TypeError"

RECURSIVE _predicate(_)
_predicate(pred) ==
    CASE pred.kind = "cmp" ->
            _sql_expr(pred.args[2]) \o " " \o pred.args[1] \o " " \o _sql_expr(pred.args[3])
      [] pred.kind = "and" ->
            "(" \o _predicate(pred.args[1]) \o " AND " \o _predicate(pred.args[2]) \o ")"
      [] pred.kind = "or" ->
            "(" \o _predicate(pred.args[1]) \o " OR " \o _predicate(pred.args[2]) \o ")"
      [] pred.kind = "not" -> "NOT(" \o _predicate(pred.args[1]) \o ")"
      [] OTHER -> "TypeError"

\* _from_clause and _wrap_from, for the FromTable/Join trees the transpiler builds
RECURSIVE _from_clause(_)
_wrap_from(node) ==
    IF node.node = "FromTable" THEN _from_clause(node)
    ELSE "(" \o _from_clause(node) \o ")"

_from_clause(node) ==
    IF node.node = "FromTable" THEN node.table \o " AS " \o node.alias
    ELSE LET left == _wrap_from(node.left)
             right == _wrap_from(node.right)
             join_kw == IF node.kind = "left" THEN "LEFT JOIN" ELSE "INNER JOIN"
         IN  left \o " " \o join_kw \o " " \o right \o " ON " \o _predicate(node.on)

RECURSIVE join_strs(_, _)
join_strs(strs, sep) ==
    IF strs = <<>> THEN ""
    ELSE IF Len(strs) = 1 THEN strs[1]
    ELSE strs[1] \o sep \o join_strs(Tail(strs), sep)

select_list(items) ==
    join_strs([i \in 1..Len(items) |-> _sql_expr(items[i][2]) \o " AS " \o items[i][1]], ", ")

\* to_sql for Project and GroupBy over a join tree, with or without a Select
to_sql(node) ==
    LET sub == node.sub
        from_part == IF sub.node = "Select" THEN _from_clause(sub.sub) ELSE _from_clause(sub)
        where_clause == IF sub.node = "Select" THEN " WHERE " \o _predicate(sub.pred) ELSE ""
        sql == "SELECT " \o select_list(node.items) \o " FROM " \o from_part \o where_clause
    IN  IF node.node = "Project" THEN sql
        ELSE IF node.keys # <<>>
             THEN sql \o " GROUP BY "
                      \o join_strs([i \in 1..Len(node.keys) |-> _sql_expr(node.keys[i])], ", ")
             ELSE sql

(***************************************************************************)
(* graphiti/cypher/parser_fw.py: the head of the query decides the clause  *)
(* class.  The text is kept as its parts: the keyword tokens before the    *)
(* pattern, the pattern, the WHERE predicate and the RETURN list.          *)
(***************************************************************************)
MATCH_PREFIX == <<"MATCH">>

OPTIONAL_PREFIX == <<"OPTIONAL", "MATCH">>

startswith(toks, prefix) ==
    Len(toks) >= Len(prefix) /\ \A i \in 1..Len(prefix) : toks[i] = prefix[i]

\* The pattern text, as the pieces the regular expressions of the parser
\* can match at a position: "(var:label)", an edge "-[var:label]->",
\* "<-[var:label]-" or "-[var:label]-", or a piece none of them matches.
NodeText(var, label) == [re |-> "NODE_RE", var |-> var, label |-> label]

EdgeText(re, var, label) == [re |-> re, var |-> var, label |-> label]

JunkText == [re |-> "no match"]

\* the direction _parse_pattern gives to an edge, by the expression that matched
edge_direction(re) ==
    CASE re = "EDGE_FORWARD_RE" -> "->"
      [] re = "EDGE_BACKWARD_RE" -> "<-"
      [] re = "EDGE_UNDIRECT_RE" -> "--"

RECURSIVE _parse_pattern_loop(_, _, _)
_parse_pattern_loop(pattern_text, idx, items) ==
    IF idx > Len(pattern_text)
    THEN IF items = <<>> THEN Raise("ParseError") ELSE PathPat(items)
    ELSE LET piece == pattern_text[idx]
         IN  IF piece.re = "NODE_RE"
             THEN _parse_pattern_loop(pattern_text, idx + 1,
                                      Append(items, NodePat(piece.var, piece.label)))
             ELSE IF piece.re \in {"EDGE_FORWARD_RE", "EDGE_BACKWARD_RE", "EDGE_UNDIRECT_RE"}
             THEN _parse_pattern_loop(pattern_text, idx + 1,
                                      Append(items, EdgePat(piece.var, piece.label,
                                                            edge_direction(piece.re))))
             ELSE Raise("ParseError")

_parse_pattern(pattern_text) == _parse_pattern_loop(pattern_text, 1, <<>>)

\* The WHERE text, as words separated by one blank: AND, OR, NOT are keywords
\* and a comparison "var.key op n" of a property with a number is one word.
Word(kw) == [word |-> kw]

CompareText(var, key, op, n) ==
    [word |-> "cmp", var |-> var, key |-> key, op |-> op, n |-> n]

word_text(w) ==
    IF w.word = "cmp"
    THEN w.var \o "." \o w.key \o " " \o w.op \o " " \o ToString(w.n)
    ELSE w.word

word_texts(words) == [i \in 1..Len(words) |-> word_text(words[i])]

\* the place of the first comparison among the words, 0 if there is none
first_compare(words) ==
    LET at == {i \in 1..Len(words) : words[i].word = "cmp"}
    IN  IF at = {} THEN 0 ELSE CHOOSE i \in at : \A j \in at : i <= j

\* The last branch of _parse_predicate, on a text with no " AND " or " OR "
\* that does not start with "NOT ": the text is split at its first operator
\* (every comparison of the model uses the same one) and each side is handed
\* to _parse_expr, which makes an int of digits, splits any other text at its
\* first "." into ExprProp(var, key), and raises ParseError without a ".".
_parse_compare(words) ==
    LET j == first_compare(words)
    IN  IF j = 0 THEN Raise("ParseError")
        ELSE LET w == words[j]
                 left == ExprProp(join_strs(Append(word_texts(SubSeq(words, 1, j - 1)),
                                                   w.var), " "),
                                  w.key)
                 rest == SubSeq(words, j + 1, Len(words))
                 j2 == first_compare(rest)
             IN  IF rest = <<>> THEN PredicateCompare(left, w.op, PyInt(w.n))
                 ELSE IF j2 = 0 THEN Raise("ParseError")
                 ELSE LET w2 == rest[j2]
                          var == join_strs(<<ToString(w.n)>>
                                               \o word_texts(SubSeq(rest, 1, j2 - 1))
                                               \o <<w2.var>>, " ")
                          key == join_strs(<<w2.key \o " " \o w2.op \o " " \o ToString(w2.n)>>
                                               \o word_texts(SubSeq(rest, j2 + 1, Len(rest))),
                                           " ")
                      IN  PredicateCompare(left, w.op, ExprProp(var, key))

\* upper.find(" AND "): the first keyword with a word on each side, 0 if none
find(words, kw) ==
    LET at == {i \in 2..(Len(words) - 1) : words[i] = Word(kw)}
    IN  IF at = {} THEN 0 ELSE CHOOSE i \in at : \A j \in at : i <= j

RECURSIVE _parse_predicate(_)
_parse_predicate(words) ==
    IF words = <<>> THEN None
    ELSE LET and_idx == find(words, "AND")
             or_idx == find(words, "OR")
             idx == IF and_idx # 0 THEN and_idx ELSE or_idx
         IN  IF idx # 0
             THEN LET left == _parse_predicate(SubSeq(words, 1, idx - 1))
                      right == _parse_predicate(SubSeq(words, idx + 1, Len(words)))
                  IN  IF IsRaise(left) THEN left
                      ELSE IF IsRaise(right) THEN right
                      ELSE IF left = None \/ right = None THEN Raise("ParseError")
                      ELSE IF and_idx # 0 THEN PredicateAnd(left, right)
                      ELSE PredicateOr(left, right)
             ELSE IF words[1] = Word("NOT") /\ Len(words) > 1
             THEN LET sub == _parse_predicate(Tail(words))
                  IN  IF IsRaise(sub) THEN sub ELSE PredicateNot(sub)
             ELSE _parse_compare(words)

_parse_match(txt) ==
    LET upper_toks == [i \in 1..Len(txt.head) |-> upper(txt.head[i])]
        clause_cls == IF startswith(upper_toks, OPTIONAL_PREFIX) THEN "ClauseOptMatch"
                      ELSE IF startswith(upper_toks, MATCH_PREFIX) THEN "ClauseMatch"
                      ELSE "none"
    IN  IF clause_cls = "none" THEN Raise("ParseError")
        ELSE LET pattern == _parse_pattern(txt.pattern)
             IN  IF IsRaise(pattern) THEN pattern
                 ELSE LET predicate == _parse_predicate(txt.where)
                      IN  IF IsRaise(predicate) THEN predicate
                          ELSE IF clause_cls = "ClauseOptMatch"
                          THEN ClauseOptMatch(pattern, predicate)
                          ELSE ClauseMatch(pattern, predicate)

parse_query(txt) ==
    LET clause == _parse_match(txt)
    IN  IF IsRaise(clause) THEN clause
        ELSE ReturnQuery(clause, txt.exprs, txt.names)

(***************************************************************************)
(* The pipeline of test_transpile_match_join: parse, transpile, print      *)
(***************************************************************************)
ParseQuery ==
    /\ tpc = "text"
    /\ query' = parse_query(text)
    /\ tpc' = IF IsRaise(query') THEN "failed" ELSE "parsed"
    /\ UNCHANGED <<text, sql_ir, sql_text>>
    /\ UNCHANGED <<dvars, evars>>

TranspileQuery ==
    /\ tpc = "parsed"
    /\ sql_ir' = transpile_query(query, rschema)
    /\ tpc' = IF IsRaise(sql_ir') THEN "failed" ELSE "transpiled"
    /\ UNCHANGED <<text, query, sql_text>>
    /\ UNCHANGED <<dvars, evars>>

PrintSql ==
    /\ tpc = "transpiled"
    /\ sql_text' = to_sql(sql_ir)
    /\ tpc' = "printed"
    /\ UNCHANGED <<text, query, sql_ir>>
    /\ UNCHANGED <<dvars, evars>>

NextT == ParseQuery \/ TranspileQuery \/ PrintSql

(***************************************************************************)
(* Inputs                                                                  *)
(***************************************************************************)
NodeLabels == {"Person", "Company", "Ghost"}

EdgeLabels == {"WORKS_AT"}

EdgeRegexes == {"EDGE_FORWARD_RE", "EDGE_BACKWARD_RE", "EDGE_UNDIRECT_RE"}

Heads == {<<"MATCH">>, <<"OPTIONAL", "MATCH">>, <<"optional", "match">>, <<"WITH">>}

node_var(i) == "n" \o ToString(i)

edge_var(i) == "e" \o ToString(i)

\* the texts of the well-formed path patterns n0 e1 n1 ... em nm
RECURSIVE PathPats(_)
PathPats(m) ==
    IF m = 0 THEN {<<NodeText(node_var(0), l)>> : l \in NodeLabels}
    ELSE {p \o <<EdgeText(re, edge_var(m), el), NodeText(node_var(m), l)>> :
            p \in PathPats(m - 1), el \in EdgeLabels, re \in EdgeRegexes, l \in NodeLabels}

Wheres == {<<>>, <<CompareText("n0", "pid", "=", 1)>>}

ReturnAtoms ==
    {ExprProp("n0", "pid"), ExprProp("n0", "name"), PyInt(1), PyStr("1"),
     ExprAgg("COUNT", PyStr("*")), ExprAgg("sum", ExprProp("n0", "pid")), ExprVar("x"),
     ExprProp("zz", "pid"), ExprAgg("COUNT", ExprAgg("SUM", ExprProp("n0", "pid")))}

alias_names(n) == [i \in 1..n |-> "a" \o ToString(i)]

\* no table_equivalent call in this run
qidle ==
    /\ rows1 = <<>>
    /\ rows2 = <<>>
    /\ equiv = None

\* no graph schema in this run
sidle ==
    /\ gschema = None
    /\ last = None
    /\ inferred = None

\* no EquivalenceVerifier in this run
bidle ==
    /\ backend = "off"
    /\ cypher_query = None
    /\ sql_query = ""
    /\ report = None
    /\ verified = 0

cidle ==
    /\ databases = {}
    /\ NON_DEL_TUPLES = <<>>
    /\ DBMS_facts = <<>>
    /\ constraint = None
    /\ model = None

kidle ==
    /\ nulls = <<>>
    /\ values = <<>>
    /\ concat = None

widle ==
    /\ benchmark = 0
    /\ num_cores = 1
    /\ train_pc = "off"
    /\ count = 0
    /\ core_procs = <<>>
    /\ files = <<>>
    /\ out_file = [exists |-> FALSE, lines |-> <<>>]

yidle == cidle /\ kidle /\ widle

xidle == bidle /\ yidle

eidle == qidle /\ sidle /\ xidle

dormant ==
    /\ dpc = "off"
    /\ max_bound_size = 0
    /\ result = None
    /\ bound_size = 0
    /\ elapsed = 0
    /\ queue = <<>>
    /\ procs = <<>>
    /\ pair = None
    /\ hist = None

\* no pipeline run
tidle ==
    /\ text = None
    /\ query = None
    /\ sql_ir = None
    /\ sql_text = ""
    /\ tpc = "off"

InitT(texts) ==
    /\ text \in texts
    /\ query = None
    /\ sql_ir = None
    /\ sql_text = ""
    /\ tpc = "text"
    /\ dormant
    /\ eidle

\* the query of test_transpile_match_join
MatchJoinText ==
    [head |-> <<"MATCH">>,
     pattern |-> <<NodeText("p", "Person"), EdgeText("EDGE_FORWARD_RE", "w", "WORKS_AT"),
                   NodeText("c", "Company")>>,
     where |-> <<>>,
     exprs |-> <<ExprProp("p", "pid"), ExprProp("c", "cid")>>,
     names |-> <<"pid", "cid">>]

\* every path pattern up to MaxSegs segments, under every head
PathTexts ==
    {[head |-> h, pattern |-> p, where |-> w,
      exprs |-> <<ExprProp("n0", "pid")>>, names |-> alias_names(1)] :
        h \in Heads, p \in UNION {PathPats(m) : m \in 0..MaxSegs}, w \in Wheres}
    \cup {MatchJoinText}

\* every RETURN list up to MaxReturn items, over a node and over one segment
ReturnTexts ==
    {[head |-> h, pattern |-> p, where |-> <<>>,
      exprs |-> es, names |-> alias_names(Len(es))] :
        h \in {<<"MATCH">>, <<"OPTIONAL", "MATCH">>},
        p \in {<<NodeText("n0", "Person")>>,
               <<NodeText("n0", "Person"), EdgeText("EDGE_FORWARD_RE", "e1", "WORKS_AT"),
                 NodeText("n1", "Company")>>},
        es \in UNION {[1..n -> ReturnAtoms] : n \in 1..MaxReturn}}

\* every sequence of up to MaxPieces pieces: nodes, edges and unreadable text
Pieces ==
    {NodeText("n0", "Person"), NodeText("n1", "Company"),
     EdgeText("EDGE_FORWARD_RE", "e1", "WORKS_AT"),
     EdgeText("EDGE_BACKWARD_RE", "e2", "WORKS_AT"), JunkText}

PatternTexts ==
    {[head |-> <<"MATCH">>, pattern |-> p, where |-> <<>>,
      exprs |-> <<ExprProp("n0", "pid")>>, names |-> alias_names(1)] :
        p \in UNION {[1..n -> Pieces] : n \in 0..MaxPieces}}

\* every WHERE text of up to MaxWords words over three comparisons and the keywords
WhereWords ==
    {CompareText("n0", "pid", "=", 1), CompareText("n0", "pid", "=", 2),
     CompareText("n0", "pid", "=", 3), Word("AND"), Word("OR"), Word("NOT")}

WhereTexts ==
    {[head |-> <<"MATCH">>, pattern |-> <<NodeText("n0", "Person")>>, where |-> w,
      exprs |-> <<ExprProp("n0", "pid")>>, names |-> alias_names(1)] :
        w \in UNION {[1..n -> WhereWords] : n \in 0..MaxWords}}

InitPath == InitT(PathTexts)

InitWhere == InitT(WhereTexts)

InitPattern == InitT(PatternTexts)

InitReturn == InitT(ReturnTexts)

SpecPath == InitPath /\ [][NextT]_vars

SpecReturn == InitReturn /\ [][NextT]_vars

SpecPattern == InitPattern /\ [][NextT]_vars

SpecWhere == InitWhere /\ [][NextT]_vars

(***************************************************************************)
(* Properties of the transpiler                                            *)
(***************************************************************************)
\* transpile_query has run on a parsed query
Transpiled == tpc \in {"transpiled", "printed"}

TranspileRan == Transpiled \/ (tpc = "failed" /\ ~IsRaise(query))

\* the relation under the Project/GroupBy, without the WHERE wrapper
JoinTree(ir) == IF ir.sub.node = "Select" THEN ir.sub.sub ELSE ir.sub

\* the joins along the left spine of a relation, innermost first
RECURSIVE Spine(_)
Spine(rel) == IF rel.node = "Join" THEN Append(Spine(rel.left), rel) ELSE <<>>

RECURSIVE Leftmost(_)
Leftmost(rel) == IF rel.node = "Join" THEN Leftmost(rel.left) ELSE rel

LabelsResolve(items) == \A i \in 1..Len(items) : lower(items[i].label) \in DOMAIN rschema

TableOf(item) == rschema[lower(item.label)]

Column(alias, col) == [kind |-> "column", args |-> <<alias, col>>]

Equals(l, r) == [kind |-> "cmp", args |-> <<"=", l, r>>]

\* C1: for a path pattern n0 e1 n1 ... em nm whose labels resolve, the IR is
\* a left-deep tree of exactly 2m joins over FromTable(table(n0), n0.var);
\* segment i joins the edge table on prev.pk = e.TGT for "<-" and
\* prev.pk = e.SRC otherwise, then the node table on e.SRC = n.pk for "<-"
\* and e.TGT = n.pk otherwise.
C1_JoinChain ==
    (TranspileRan /\ LabelsResolve(query.clause.pattern.items)) =>
        /\ ~IsRaise(sql_ir)
        /\ LET items == query.clause.pattern.items
               m == (Len(items) - 1) \div 2
               rel == JoinTree(sql_ir)
               sp == Spine(rel)
           IN  /\ Len(sp) = 2 * m
               /\ Leftmost(rel) = FromTable(TableOf(items[1]).name, items[1].var)
               /\ \A i \in 1..m :
                    LET prev == items[2 * i - 1]
                        e == items[2 * i]
                        n == items[2 * i + 1]
                        back == e.direction = "<-"
                    IN  /\ sp[2 * i - 1].right = FromTable(TableOf(e).name, e.var)
                        /\ sp[2 * i - 1].on =
                              Equals(Column(prev.var, TableOf(prev).pk),
                                     Column(e.var, IF back THEN "TGT" ELSE "SRC"))
                        /\ sp[2 * i].right = FromTable(TableOf(n).name, n.var)
                        /\ sp[2 * i].on =
                              Equals(Column(e.var, IF back THEN "SRC" ELSE "TGT"),
                                     Column(n.var, TableOf(n).pk))

\* a two-segment path with a backward and an undirected edge was transpiled
C1_Witness ==
    /\ Transpiled
    /\ Len(query.clause.pattern.items) = 5
    /\ query.clause.pattern.items[2].direction = "<-"
    /\ query.clause.pattern.items[4].direction = "--"
    /\ Len(Spine(JoinTree(sql_ir))) = 4

\* C2: every join of the IR is 'left' iff the clause is an OPTIONAL MATCH, and
\* the OPTIONAL MATCH (n0:Person)-[e1:WORKS_AT]->(n1:Company) prints two LEFT JOINs.
C2_LeftIffOptional ==
    /\ Transpiled =>
         \A i \in 1..Len(Spine(JoinTree(sql_ir))) :
            (Spine(JoinTree(sql_ir))[i].kind = "left") <=> (query.clause.cls = "ClauseOptMatch")
    /\ (/\ tpc = "printed"
        /\ text.head = <<"OPTIONAL", "MATCH">>
        /\ text.where = <<>>
        /\ text.pattern = <<NodeText("n0", "Person"),
                            EdgeText("EDGE_FORWARD_RE", "e1", "WORKS_AT"),
                            NodeText("n1", "Company")>>)
         => sql_text = "SELECT n0.pid AS a1 FROM (person AS n0 LEFT JOIN works_at AS e1 "
                       \o "ON n0.pid = e1.SRC) LEFT JOIN company AS n1 ON e1.TGT = n1.cid"

RECURSIVE HasExprVar(_)
HasExprVar(e) ==
    \/ e.type = "ExprVar"
    \/ e.type = "ExprAgg" /\ HasExprVar(e.expr)

Supported(exprs) == \A i \in 1..Len(exprs) : ~HasExprVar(exprs[i])

AnyAgg(exprs) == \E i \in 1..Len(exprs) : exprs[i].type = "ExprAgg"

\* the index of the first RETURN expression whose lowering is k
FirstAt(exprs, k) ==
    CHOOSE i \in 1..Len(exprs) :
        /\ to_sql_expr(exprs[i]) = k
        /\ \A j \in 1..(i - 1) : to_sql_expr(exprs[j]) # k

\* C3: with an aggregate in RETURN the IR is a GroupBy whose keys are the
\* non-aggregate RETURN expressions, each once, in first-occurrence order, and
\* whose items are the (alias, expr) pairs of all RETURN expressions in order.
C3_GroupByKeys ==
    (TranspileRan /\ AnyAgg(text.exprs) /\ Supported(text.exprs)) =>
        /\ ~IsRaise(sql_ir)
        /\ sql_ir.node = "GroupBy"
        /\ LET exprs == text.exprs
               keys == sql_ir.keys
               nonagg == {to_sql_expr(exprs[i]) :
                            i \in {j \in 1..Len(exprs) : exprs[j].type # "ExprAgg"}}
           IN  /\ {keys[i] : i \in 1..Len(keys)} = nonagg
               /\ \A i, j \in 1..Len(keys) : i # j => keys[i] # keys[j]
               /\ \A i, j \in 1..Len(keys) :
                    i < j => FirstAt(exprs, keys[i]) < FirstAt(exprs, keys[j])
               /\ Len(sql_ir.items) = Len(exprs)
               /\ \A i \in 1..Len(exprs) :
                    sql_ir.items[i] = <<text.names[i], to_sql_expr(exprs[i])>>

\* a GroupBy was built from a RETURN list that repeats a key around an aggregate
C3_Witness ==
    /\ Transpiled
    /\ sql_ir.node = "GroupBy"
    /\ Len(text.exprs) = 3
    /\ text.exprs[1] = ExprProp("n0", "pid")
    /\ text.exprs[2] = ExprAgg("COUNT", PyStr("*"))
    /\ text.exprs[3] = ExprProp("n0", "pid")
    /\ sql_ir.keys = <<Column("n0", "pid")>>

\* C4: without an aggregate in RETURN the IR is a Project with one item per
\* RETURN expression, the i-th being (names[i], lowered exprs[i]).
C4_ProjectItems ==
    (TranspileRan /\ ~AnyAgg(text.exprs) /\ Supported(text.exprs)) =>
        /\ ~IsRaise(sql_ir)
        /\ sql_ir.node = "Project"
        /\ Len(sql_ir.items) = Len(text.exprs)
        /\ \A i \in 1..Len(text.exprs) :
              sql_ir.items[i] = <<text.names[i], to_sql_expr(text.exprs[i])>>

\* a Project of three items was built
C4_Witness ==
    /\ Transpiled
    /\ sql_ir.node = "Project"
    /\ Len(text.exprs) = 3
    /\ Len(sql_ir.items) = 3
    /\ text.exprs[3] = PyStr("1")

(***************************************************************************)
(* backend/core/cli_verieql.py: verify, the worker process                 *)
(*                                                                         *)
(* A process record holds verify's position (pc), its locals (ret, state,  *)
(* err_info, outs) and the fields of its Environment that verify reads     *)
(* (counterexample, cypher_counterexample, solving_time).  Python's None   *)
(* is the string "None" in these fields.                                   *)
(***************************************************************************)
timeout == MaxTicks

Excs == {"SyntaxError", "NotEquivalenceError", "TimeoutError", "NotSupportedError",
         "UnknownError", "NotImplementedError", "Exception"}

\* Process(target=verify, ...).start() at bound b: Environment.__init__ leaves
\* counterexample None, cypher_counterexample [] and solving_time None
new_process(b) ==
    [bound |-> b, alive |-> TRUE, pc |-> "setup", ret |-> "None", state |-> "None",
     err_info |-> "None", counterexample |-> "None", cypher_counterexample |-> "list",
     solving_time |-> "None", outs |-> <<>>, nput |-> 0]

\* the except clauses of verify, first match first
except_state(exc) ==
    CASE exc = "SyntaxError" -> "SYN_ERR"
      [] exc = "NotEquivalenceError" -> "NON_EQUIV"
      [] exc = "TimeoutError" -> "TIMEOUT"
      [] exc = "NotSupportedError" -> "NOT_SUP_ERR"
      [] exc = "UnknownError" -> "UNKNOWN"
      [] exc = "NotImplementedError" -> "NOT_IMPL_ERR"
      [] OTHER -> "OTHER_ERR"

\* an exception raised inside the try block: err_info = str(err), state by clause
caught(p, exc) ==
    [p EXCEPT !.state = except_state(exc), !.err_info = exc, !.pc = "outs"]

\* Python compares bool and int as numbers: True is 1, False is 0
py_number(v) == CASE v = "True" -> 1 [] v = "False" -> 0 [] v = "-1" -> 0 - 1

\* result = env.analyze(...); if result == False: raise NotEquivalenceError()
\* else: state = STATE.EQUIV
analyze_returned(p, ret) ==
    IF py_number(ret) = py_number("False")
    THEN caught([p EXCEPT !.ret = ret], "NotEquivalenceError")
    ELSE [p EXCEPT !.ret = ret, !.state = "EQUIV", !.pc = "outs"]

\* the column check at the head of Environment.compare
columns_differ(pr) ==
    /\ pr.lhs.name # "DELETED_TUPLE"
    /\ pr.rhs.name # "DELETED_TUPLE"
    /\ pr.lhs.attributes # pr.rhs.attributes

running(w, pc) == procs[w].alive /\ procs[w].pc = pc

\* create_database, add_constraints, save/reload checkpoints
WorkerSetup(w) ==
    /\ running(w, "setup")
    /\ \/ procs' = [procs EXCEPT ![w].pc = "analyze"]
       \/ \E exc \in Excs : procs' = [procs EXCEPT ![w] = caught(@, exc)]
    /\ UNCHANGED <<dpc, max_bound_size, result, bound_size, elapsed, queue, pair, hist>>
    /\ UNCHANGED <<tvars, evars>>

\* Environment.analyze up to the call of compare: parse and encode both queries
WorkerAnalyze(w) ==
    /\ running(w, "analyze")
    /\ \/ procs' = [procs EXCEPT ![w].pc = "compare"]
       \/ \E exc \in Excs : procs' = [procs EXCEPT ![w] = caught(@, exc)]
    /\ UNCHANGED <<dpc, max_bound_size, result, bound_size, elapsed, queue, pair, hist>>
    /\ UNCHANGED <<tvars, evars>>

\* Environment.compare up to the solver call; on a column mismatch compare
\* returns -1 and analyze returns it unchanged
WorkerCompare(w) ==
    /\ running(w, "compare")
    /\ IF columns_differ(pair)
       THEN procs' = [procs EXCEPT ![w] = analyze_returned(@, "-1")]
       ELSE \/ procs' = [procs EXCEPT ![w].pc = "solve"]
            \/ \E exc \in Excs : procs' = [procs EXCEPT ![w] = caught(@, exc)]
    /\ UNCHANGED <<dpc, max_bound_size, result, bound_size, elapsed, queue, pair, hist>>
    /\ UNCHANGED <<tvars, evars>>

\* solver.check(): unsat returns True, unknown raises UnknownError, sat sets
\* env.counterexample and starts rendering
WorkerSolve(w) ==
    /\ running(w, "solve")
    /\ LET p == [procs[w] EXCEPT !.solving_time = "t"]
       IN  \/ procs' = [procs EXCEPT ![w] = analyze_returned(p, "True")]
           \/ procs' = [procs EXCEPT ![w] = caught(p, "UnknownError")]
           \/ procs' = [procs EXCEPT ![w] = [p EXCEPT !.counterexample = "text",
                                                      !.pc = "render"]]
           \/ \E exc \in Excs : procs' = [procs EXCEPT ![w] = caught(p, exc)]
    /\ UNCHANGED <<dpc, max_bound_size, result, bound_size, elapsed, queue, pair, hist>>
    /\ UNCHANGED <<tvars, evars>>

\* rendering the model: cypher_counterexample becomes a string only at the
\* end, then compare and analyze return False
WorkerRender(w) ==
    /\ running(w, "render")
    /\ \/ procs' = [procs EXCEPT ![w] =
                      analyze_returned([@ EXCEPT !.cypher_counterexample = "text"], "False")]
       \/ \E exc \in Excs : procs' = [procs EXCEPT ![w] = caught(@, exc)]
    /\ UNCHANGED <<dpc, max_bound_size, result, bound_size, elapsed, queue, pair, hist>>
    /\ UNCHANGED <<tvars, evars>>

\* after the try block: env.counterexample + '\n' + env.cypher_counterexample
\* raises TypeError, outside any handler, while cypher_counterexample is a list
WorkerOuts(w) ==
    /\ running(w, "outs")
    /\ LET p == procs[w]
       IN  IF p.counterexample # "None" /\ p.cypher_counterexample # "None"
           THEN IF p.cypher_counterexample = "list"
                THEN procs' = [procs EXCEPT ![w].alive = FALSE, ![w].pc = "crashed"]
                ELSE procs' = [procs EXCEPT ![w].pc = "put",
                                 ![w].outs = <<p.state, "t", p.solving_time, "text", p.err_info>>]
           ELSE procs' = [procs EXCEPT ![w].pc = "put",
                            ![w].outs = <<p.state, "t", p.solving_time, "None", p.err_info>>]
    /\ UNCHANGED <<dpc, max_bound_size, result, bound_size, elapsed, queue, pair, hist>>
    /\ UNCHANGED <<tvars, evars>>

\* for o in outs: queue.put(o)
WorkerPut(w) ==
    /\ running(w, "put")
    /\ procs[w].outs # <<>>
    /\ queue' = Append(queue, [v |-> Head(procs[w].outs), bound |-> procs[w].bound])
    /\ procs' = [procs EXCEPT ![w].outs = Tail(@), ![w].nput = @ + 1]
    /\ UNCHANGED <<dpc, max_bound_size, result, bound_size, elapsed, pair, hist>>
    /\ UNCHANGED <<tvars, evars>>

\* verify returns and the process ends
WorkerExit(w) ==
    /\ running(w, "put")
    /\ procs[w].outs = <<>>
    /\ procs' = [procs EXCEPT ![w].alive = FALSE, ![w].pc = "exit"]
    /\ UNCHANGED <<dpc, max_bound_size, result, bound_size, elapsed, queue, pair, hist>>
    /\ UNCHANGED <<tvars, evars>>

\* the operating system kills the worker (out of memory)
WorkerKilled(w) ==
    /\ procs[w].alive
    /\ procs' = [procs EXCEPT ![w].alive = FALSE, ![w].pc = "killed"]
    /\ UNCHANGED <<dpc, max_bound_size, result, bound_size, elapsed, queue, pair, hist>>
    /\ UNCHANGED <<tvars, evars>>

(***************************************************************************)
(* backend/core/cli_verieql.py: process_ends_with_max_timeout, the driver  *)
(***************************************************************************)
proc == procs[Len(procs)]

\* is_alive() that reports a running process as finished
is_alive_never(p) == FALSE

\* Process.is_alive()
is_alive(p) == p.alive

\* the test that also climbs after a NON_EQUIV verdict
ladder_continues_on_verdict(state) == state \in {"EQUIV", "NON_EQUIV"}

\* `if state == STATE.EQUIV`: the only verdict after which the ladder climbs
ladder_continues(state) == state = "EQUIV"

\* entry up to `start = time.time()`: states and time_cost are None as train
\* passes them
DriverStart ==
    /\ dpc = "init"
    /\ result' = [states |-> <<>>, times |-> <<>>, counterexample |-> "None", err |-> "None"]
    /\ bound_size' = Len(result'.states) + 1
    /\ procs' = Append(procs, new_process(bound_size'))
    /\ elapsed' = 0
    /\ dpc' = "loop"
    /\ UNCHANGED <<max_bound_size, queue, pair, hist>>
    /\ UNCHANGED <<tvars, evars>>

\* what the loop body records from the values it took off the queue: five
\* values unpack; any other number raises ValueError and counts as OOM.
\* A times entry is <<traversing, solving>>, or <<>> for None.
recorded(res, vals) ==
    IF Len(vals) = 5
    THEN [states |-> Append(res.states, vals[1].v),
          times |-> Append(res.times, <<vals[2].v, vals[3].v>>),
          counterexample |-> vals[4].v,
          err |-> vals[5].v]
    ELSE [res EXCEPT !.states = Append(@, "OOM"), !.times = Append(@, <<>>)]

\* the loop body that takes `start` anew whenever it starts a process
DriverCollect_restart_clock ==
    /\ dpc = "loop"
    /\ elapsed <= timeout
    /\ ~is_alive(proc)
    /\ LET vals == queue
           state == IF Len(vals) = 5 THEN vals[1].v ELSE "OOM"
       IN  /\ ladder_continues(state) => Len(result.states) + 2 <= LadderCap
           /\ result' = recorded(result, vals)
           /\ queue' = <<>>
           /\ hist' = [hist EXCEPT !.reads = Append(@, [pos |-> Len(result'.states),
                                                        vals |-> vals])]
           /\ IF ladder_continues(state)
              THEN /\ bound_size' = Len(result'.states) + 1
                   /\ procs' = Append(procs, new_process(bound_size'))
                   /\ elapsed' = 0
                   /\ dpc' = "loop"
              ELSE /\ dpc' = "done"
                   /\ UNCHANGED <<bound_size, procs, elapsed>>
    /\ UNCHANGED <<max_bound_size, pair>>
    /\ UNCHANGED <<tvars, evars>>

\* one turn of the while loop with the process not alive
DriverCollect ==
    /\ dpc = "loop"
    /\ elapsed <= timeout
    /\ ~is_alive(proc)
    /\ LET vals == queue
           state == IF Len(vals) = 5 THEN vals[1].v ELSE "OOM"
       IN  /\ ladder_continues(state) => Len(result.states) + 2 <= LadderCap
           /\ result' = recorded(result, vals)
           /\ queue' = <<>>
           /\ hist' = [hist EXCEPT !.reads = Append(@, [pos |-> Len(result'.states),
                                                        vals |-> vals])]
           /\ IF ladder_continues(state)
              THEN /\ bound_size' = Len(result'.states) + 1
                   /\ procs' = Append(procs, new_process(bound_size'))
                   /\ dpc' = "loop"
              ELSE /\ dpc' = "done"
                   /\ UNCHANGED <<bound_size, procs>>
    /\ UNCHANGED <<max_bound_size, elapsed, pair>>
    /\ UNCHANGED <<tvars, evars>>

\* the timeout branch without proc.terminate()
DriverTimeout_no_terminate ==
    /\ dpc = "loop"
    /\ ~(elapsed <= timeout)
    /\ result' = [result EXCEPT !.states = Append(@, "TIMEOUT"), !.times = Append(@, <<>>)]
    /\ hist' = [hist EXCEPT !.timed_out = IF proc.alive THEN "alive" ELSE "dead"]
    /\ dpc' = "done"
    /\ UNCHANGED <<max_bound_size, bound_size, elapsed, queue, pair, procs>>
    /\ UNCHANGED <<tvars, evars>>

\* the while condition fails: terminate, join, record TIMEOUT
DriverTimeout ==
    /\ dpc = "loop"
    /\ ~(elapsed <= timeout)
    /\ procs' = [procs EXCEPT ![Len(procs)] =
                    IF @.alive THEN [@ EXCEPT !.alive = FALSE, !.pc = "terminated"] ELSE @]
    /\ result' = [result EXCEPT !.states = Append(@, "TIMEOUT"), !.times = Append(@, <<>>)]
    /\ hist' = [hist EXCEPT !.timed_out = IF proc.alive THEN "alive" ELSE "dead"]
    /\ dpc' = "done"
    /\ UNCHANGED <<max_bound_size, bound_size, elapsed, queue, pair>>
    /\ UNCHANGED <<tvars, evars>>

\* the wall clock; time.sleep(0.1) in the loop only lets it pass
Tick ==
    /\ dpc = "loop"
    /\ elapsed <= timeout
    /\ elapsed' = elapsed + 1
    /\ UNCHANGED <<dpc, max_bound_size, result, bound_size, queue, procs, pair, hist>>
    /\ UNCHANGED <<tvars, evars>>

Worker(w) ==
    \/ WorkerSetup(w)
    \/ WorkerAnalyze(w)
    \/ WorkerCompare(w)
    \/ WorkerSolve(w)
    \/ WorkerRender(w)
    \/ WorkerOuts(w)
    \/ WorkerPut(w)
    \/ WorkerExit(w)
    \/ WorkerKilled(w)

NextLadder ==
    \/ DriverStart
    \/ DriverCollect
    \/ DriverTimeout
    \/ Tick
    \/ \E w \in 1..Len(procs) : Worker(w)

\* the first tuple of a query's output table: its name and attribute count
Tuple(name, attributes) == [name |-> name, attributes |-> attributes]

\* input pairs: equal column counts, different ones, and different ones
\* hidden behind a DELETED_TUPLE on either side
Pairs ==
    {[lhs |-> Tuple("TUPLE", 1), rhs |-> Tuple("TUPLE", 1)],
     [lhs |-> Tuple("TUPLE", 1), rhs |-> Tuple("TUPLE", 2)],
     [lhs |-> Tuple("TUPLE", 2), rhs |-> Tuple("TUPLE", 1)],
     [lhs |-> Tuple("DELETED_TUPLE", 1), rhs |-> Tuple("TUPLE", 2)],
     [lhs |-> Tuple("TUPLE", 2), rhs |-> Tuple("DELETED_TUPLE", 1)]}

InitLadder ==
    /\ text = None
    /\ query = None
    /\ sql_ir = None
    /\ sql_text = ""
    /\ tpc = "off"
    /\ dpc = "init"
    /\ max_bound_size \in 1..MaxBoundArg
    /\ result = None
    /\ bound_size = 0
    /\ elapsed = 0
    /\ queue = <<>>
    /\ procs = <<>>
    /\ pair \in Pairs
    /\ hist = [reads |-> <<>>, timed_out |-> "no"]
    /\ eidle

SpecLadder == InitLadder /\ [][NextLadder]_vars

\* The driver is a running process and the wall clock advances: each of its
\* steps, once it can be taken and stays so, is taken.  Nothing is assumed
\* of the workers: a worker may exit, be killed or run for ever.
SpecLadderFair ==
    /\ SpecLadder
    /\ WF_vars(DriverStart)
    /\ WF_vars(DriverCollect)
    /\ WF_vars(DriverTimeout)
    /\ WF_vars(Tick)

(***************************************************************************)
(* graphiti/pipeline/reduce_sql.py: table_equivalent                       *)
(*                                                                         *)
(* A table is a sequence of rows, a row a sequence of values.  Python      *)
(* indexes columns from 0, the model from 1; in a greedy mapping 0 stands  *)
(* for None.  A Counter is the function from the elements counted to their *)
(* counts, so Counter equality is function equality.                       *)
(***************************************************************************)
Return(v) == [node |-> "return", value |-> v]

\* an Optional[List[int]] that is not None
Some(v) == [some |-> v]

\* collections.Counter over a sequence
Counter(xs) ==
    [x \in {xs[i] : i \in 1..Len(xs)} |-> Cardinality({i \in 1..Len(xs) : xs[i] = x})]

column_signature(rows, idx) == Counter([i \in 1..Len(rows) |-> rows[i][idx]])

apply_perm(rows, perm) ==
    [i \in 1..Len(rows) |-> [k \in 1..Len(perm) |-> rows[i][perm[k]]]]

bags_equal(r1, r2) == Counter(r1) = Counter(r2)

\* [j for j, sig_other in enumerate(sig2) if sig_other == sig and j not in used]
candidates_of(sig, sig2, used) ==
    LET keep(j) == sig2[j] = sig /\ j \notin used
    IN  SelectSeq([j \in 1..Len(sig2) |-> j], keep)

RECURSIVE greedy_loop(_, _, _, _, _)
\* the for loop of greedy_match_by_signature from index idx on
greedy_loop(sig1, sig2, idx, mapping, used) ==
    IF idx > Len(sig1) THEN mapping
    ELSE LET candidates == candidates_of(sig1[idx], sig2, used)
         IN  IF Len(candidates) = 1
             THEN greedy_loop(sig1, sig2, idx + 1,
                              [mapping EXCEPT ![idx] = candidates[1]],
                              used \cup {candidates[1]})
             ELSE greedy_loop(sig1, sig2, idx + 1, mapping, used)

\* a greedy matching that takes the first candidate when there are several
greedy_match_first_candidate(sig1, sig2) ==
    LET n == Len(sig1)
        first(i) == candidates_of(sig1[i], sig2, {})
    IN  IF \A i \in 1..n : Len(first(i)) >= 1
        THEN Some([i \in 1..n |-> first(i)[1]])
        ELSE None

greedy_match_by_signature(sig1, sig2) ==
    LET mapping == greedy_loop(sig1, sig2, 1, [i \in 1..Len(sig1) |-> 0], {})
    IN  IF \A i \in 1..Len(mapping) : mapping[i] # 0 THEN Some(mapping) ELSE None

RECURSIVE backtrack(_, _, _, _, _)
\* the perms backtrack(pos, current, used) yields, trying the candidates of
\* position pos from the k-th on
backtrack(possible_positions, pos, k, current, used) ==
    IF pos > Len(possible_positions) THEN <<current>>
    ELSE IF k > Len(possible_positions[pos]) THEN <<>>
    ELSE LET candidate == possible_positions[pos][k]
             here == IF candidate \in used THEN <<>>
                     ELSE backtrack(possible_positions, pos + 1, 1,
                                    Append(current, candidate), used \cup {candidate})
         IN  here \o backtrack(possible_positions, pos, k + 1, current, used)

\* a fallback that proposes no permutation
generate_candidate_perms_none(sig1, sig2) == <<>>

generate_candidate_perms(sig1, sig2) ==
    LET possible_positions == [i \in 1..Len(sig1) |-> candidates_of(sig1[i], sig2, {})]
    IN  IF \E i \in 1..Len(sig1) : possible_positions[i] = <<>>
        THEN <<>>
        ELSE backtrack(possible_positions, 1, 1, <<>>, {})

table_equivalent(r1, r2) ==
    IF r1 = <<>> /\ r2 = <<>> THEN Return(TRUE)
    ELSE IF Len(r1) # Len(r2) THEN Return(FALSE)
    ELSE IF r1 = <<>> THEN Return(TRUE)
    ELSE LET len_cols == Len(r1[1])
         IN  IF \E i \in 1..Len(r1) : Len(r1[i]) # len_cols THEN Raise("ValueError")
             ELSE IF \E i \in 1..Len(r2) : Len(r2[i]) # len_cols THEN Raise("ValueError")
             ELSE LET sig1 == [idx \in 1..len_cols |-> column_signature(r1, idx)]
                      sig2 == [idx \in 1..len_cols |-> column_signature(r2, idx)]
                      mapping == greedy_match_by_signature(sig1, sig2)
                      perms == generate_candidate_perms(sig1, sig2)
                  IN  IF mapping # None
                      THEN Return(bags_equal(r1, apply_perm(r2, mapping.some)))
                      ELSE Return(\E n \in 1..Len(perms) :
                                      bags_equal(r1, apply_perm(r2, perms[n])))

\* one call table_equivalent(rows1, rows2)
TableEquivalent ==
    /\ equiv = None
    /\ equiv' = table_equivalent(rows1, rows2)
    /\ UNCHANGED <<rows1, rows2>>
    /\ UNCHANGED <<tvars, dvars, svars, xvars>>

NextTable == TableEquivalent

Vals == {0, 1}

\* the tables whose rows all have the same number of columns
UniformTables ==
    UNION {IF r * c <= MaxCells THEN [1..r -> [1..c -> Vals]] ELSE {} :
               r \in 0..MaxRows, c \in 0..MaxCols}

\* tables of rows of any lengths; only the lengths matter to the arity checks
RaggedTables ==
    UNION {[1..r -> {[k \in 1..c |-> 0] : c \in 0..MaxCols}] : r \in 0..MaxRaggedRows}

Tables == UniformTables \cup RaggedTables

InitTable ==
    /\ rows1 \in Tables
    /\ rows2 \in Tables
    /\ equiv = None
    /\ tidle
    /\ dormant
    /\ sidle
    /\ xidle

SpecTable == InitTable /\ [][NextTable]_vars

(***************************************************************************)
(* graphiti/schema/graph_schema.py, graphiti/schema/sdt.py and             *)
(* graphiti/pipeline/infer_sdt.py                                          *)
(*                                                                         *)
(* A dict is the sequence of its values in insertion order (GraphSchema)   *)
(* or the function from its keys (RelationalSchema.tables, Table.fks).     *)
(***************************************************************************)
\* NodeType(label, keys) with __post_init__
NodeType(label, keys) ==
    IF label = "" \/ keys = <<>> THEN Raise("ValueError")
    ELSE [label |-> label, keys |-> keys]

\* EdgeType(label, src_label, tgt_label, keys) with __post_init__
EdgeType(label, src_label, tgt_label, keys) ==
    IF label = "" \/ src_label = "" \/ tgt_label = "" \/ keys = <<>>
    THEN Raise("ValueError")
    ELSE [label |-> label, src_label |-> src_label, tgt_label |-> tgt_label, keys |-> keys]

default_key(t) == t.keys[1]

GraphSchema == [nodes |-> <<>>, edges |-> <<>>]

\* `label in d` for a dict of types keyed by label
has_label(d, label) == \E i \in 1..Len(d) : d[i].label = label

\* GraphSchema.add_node: the schema after the call and the exception raised
add_node(g, node) ==
    IF has_label(g.nodes, node.label)
    THEN [g |-> g, exc |-> "ValueError"]
    ELSE [g |-> [g EXCEPT !.nodes = Append(@, node)], exc |-> "None"]

\* GraphSchema.add_edge
add_edge(g, edge) ==
    IF has_label(g.edges, edge.label)
    THEN [g |-> g, exc |-> "ValueError"]
    ELSE IF ~has_label(g.nodes, edge.src_label) \/ ~has_label(g.nodes, edge.tgt_label)
    THEN [g |-> g, exc |-> "ValueError"]
    ELSE [g |-> [g EXCEPT !.edges = Append(@, edge)], exc |-> "None"]

\* RelationalSchema.add_table: the tables dict after the call, or ValueError
add_table(tables, table) ==
    IF table.name \in DOMAIN tables THEN Raise("ValueError")
    ELSE tables @@ (table.name :> table)

SDTRule(left_pred, right_pred) == [left_pred |-> left_pred, right_pred |-> right_pred]

\* SDT.add_rule
add_rule(rules, rule) == Append(rules, rule)

InferResult(schema, sdt) == [schema |-> schema, sdt |-> sdt]

\* a node table named by the label as written
node_table_keep_case(node) == Table(node.label, node.keys, default_key(node), <<>>)

\* the table of a node type
node_table(node) == Table(lower(node.label), node.keys, default_key(node), <<>>)

\* an edge table whose TGT key points at the source table
edge_table_tgt_as_src(edge, src_table, tgt_table) ==
    Table(lower(edge.label), edge.keys \o <<"SRC", "TGT">>, default_key(edge),
          [SRC |-> <<src_table.name, src_table.pk>>,
           TGT |-> <<src_table.name, src_table.pk>>])

\* the table of an edge type, with its two foreign keys
edge_table(edge, src_table, tgt_table) ==
    Table(lower(edge.label), edge.keys \o <<"SRC", "TGT">>, default_key(edge),
          [SRC |-> <<src_table.name, src_table.pk>>,
           TGT |-> <<tgt_table.name, tgt_table.pk>>])

\* a node rule whose right predicate names the label, not the table
node_rule_label(node) ==
    SDTRule(<<node.label, node.keys>>, <<node.label, node.keys>>)

node_rule(node) ==
    SDTRule(<<node.label, node.keys>>, <<lower(node.label), node.keys>>)

edge_rule(edge) ==
    SDTRule(<<edge.label, edge.keys \o <<"SRC", "TGT">>>>,
            <<lower(edge.label), edge.keys \o <<"SRC", "TGT">>>>)

RECURSIVE infer_edges(_, _, _, _)
\* the loop over gschema.edges.values() from the i-th edge on
infer_edges(edges, i, tables, rules) ==
    IF i > Len(edges) THEN InferResult(tables, rules)
    ELSE LET edge == edges[i]
             src_table == get_table(tables, lower(edge.src_label))
             tgt_table == get_table(tables, lower(edge.tgt_label))
         IN  IF IsRaise(src_table) THEN src_table
             ELSE IF IsRaise(tgt_table) THEN tgt_table
             ELSE LET added == add_table(tables, edge_table(edge, src_table, tgt_table))
                  IN  IF IsRaise(added) THEN added
                      ELSE infer_edges(edges, i + 1, added, add_rule(rules, edge_rule(edge)))

RECURSIVE infer_nodes(_, _, _, _)
\* the loop over gschema.nodes.values() from the i-th node on, then the edges
infer_nodes(g, i, tables, rules) ==
    IF i > Len(g.nodes) THEN infer_edges(g.edges, 1, tables, rules)
    ELSE LET node == g.nodes[i]
             added == add_table(tables, node_table(node))
         IN  IF IsRaise(added) THEN added
             ELSE infer_nodes(g, i + 1, added, add_rule(rules, node_rule(node)))

infer_sdt(g) == infer_nodes(g, 1, <<>>, <<>>)

\* schema.add_node(NodeType(label, keys))
AddNode(label, keys) ==
    /\ inferred = None
    /\ LET node == NodeType(label, keys)
       IN  IF IsRaise(node)
           THEN /\ last' = [op |-> "NodeType", dangling |-> FALSE, exc |-> node.exc]
                /\ UNCHANGED gschema
           ELSE LET out == add_node(gschema, node)
                IN  /\ gschema' = out.g
                    /\ last' = [op |-> "add_node", dangling |-> FALSE, exc |-> out.exc]
    /\ UNCHANGED inferred
    /\ UNCHANGED <<tvars, dvars, qvars, xvars>>

\* schema.add_edge(EdgeType(label, src_label, tgt_label, keys)); `dangling`
\* notes that the source or target label was not a node label at the call
AddEdge(label, src_label, tgt_label, keys) ==
    /\ inferred = None
    /\ LET edge == EdgeType(label, src_label, tgt_label, keys)
       IN  IF IsRaise(edge)
           THEN /\ last' = [op |-> "EdgeType", dangling |-> FALSE, exc |-> edge.exc]
                /\ UNCHANGED gschema
           ELSE LET out == add_edge(gschema, edge)
                IN  /\ gschema' = out.g
                    /\ last' = [op |-> "add_edge",
                                dangling |-> \/ ~has_label(gschema.nodes, src_label)
                                             \/ ~has_label(gschema.nodes, tgt_label),
                                exc |-> out.exc]
    /\ UNCHANGED inferred
    /\ UNCHANGED <<tvars, dvars, qvars, xvars>>

\* infer_sdt(schema)
InferSdt ==
    /\ inferred = None
    /\ inferred' = infer_sdt(gschema)
    /\ UNCHANGED <<gschema, last>>
    /\ UNCHANGED <<tvars, dvars, qvars, xvars>>

SchemaNodeLabels == {"Person", "person", "Company"}

SchemaEdgeLabels == {"WORKS_AT", "Person"}

SchemaEndLabels == {"Person", "Company", "Ghost"}

NodeKeyLists == {SubSeq(<<"id", "name", "age">>, 1, n) : n \in 0..MaxKeys}

EdgeKeyLists == {<<>>, <<"wid", "since">>}

NextSchema ==
    \/ \E label \in SchemaNodeLabels, keys \in NodeKeyLists : AddNode(label, keys)
    \/ \E label \in SchemaEdgeLabels, src_label, tgt_label \in SchemaEndLabels,
          keys \in EdgeKeyLists : AddEdge(label, src_label, tgt_label, keys)
    \/ InferSdt

InitSchema ==
    /\ gschema = GraphSchema
    /\ last = None
    /\ inferred = None
    /\ qidle
    /\ xidle
    /\ tidle
    /\ dormant

SpecSchema == InitSchema /\ [][NextSchema]_vars

(***************************************************************************)
(* Properties of the bounded search driver                                 *)
(***************************************************************************)
Called == dpc \in {"loop", "done"}

Reads == hist.reads

\* the workers that delivered all their values and were not cancelled
Completed == {w \in 1..Len(procs) : procs[w].nput = 5 /\ procs[w].pc # "terminated"}

Largest(S) == IF S = {} THEN 0 ELSE CHOOSE x \in S : \A y \in S : y <= x

\* C5: workers run at bounds 1, 2, 3, ..., each one larger than the one
\* before, and none at a bound above max_bound_size.
C5_BoundsUpToMax ==
    \A w \in 1..Len(procs) :
        /\ procs[w].bound = w
        /\ procs[w].bound <= max_bound_size

\* C6: the worker for the next bound is started only after the worker for the
\* current bound reported EQUIV; any other recorded state ends the ladder.
C6_ClimbOnlyAfterEquiv ==
    Called =>
        /\ \A w \in 2..Len(procs) :
              /\ Len(Reads) >= w - 1
              /\ Len(Reads[w - 1].vals) = 5
              /\ Reads[w - 1].vals[1] = [v |-> "EQUIV", bound |-> procs[w - 1].bound]
              /\ result.states[w - 1] = "EQUIV"
        /\ \A i \in 1..Len(result.states) :
              result.states[i] # "EQUIV" =>
                  /\ dpc = "done"
                  /\ i = Len(result.states)
                  /\ Len(procs) <= i

\* the ladder climbed once and ended on a NON_EQUIV verdict at bound 2
C6_Witness ==
    /\ dpc = "done"
    /\ Len(procs) = 2
    /\ result.states = <<"EQUIV", "NON_EQUIV">>

\* C7: when compare finds different column counts, the state recorded for
\* that bound is NON_EQUIV and no worker is started at a larger bound.
C7_MismatchIsNonEquiv ==
    Called =>
        \A i \in 1..Len(Reads) :
            (Len(Reads[i].vals) = 5 /\ procs[Reads[i].vals[1].bound].ret = "-1") =>
                /\ result.states[Reads[i].pos] = "NON_EQUIV"
                /\ Len(procs) = Reads[i].vals[1].bound

\* C8: on a timeout with the worker still running the worker is terminated,
\* nothing it put on the queue is recorded, and one TIMEOUT follows the
\* states of the completed bounds, as many as the largest completed bound.
C8_TimeoutDiscardsWorker ==
    (dpc = "done" /\ hist.timed_out = "alive") =>
        LET n == Len(result.states)
        IN  /\ ~proc.alive
            /\ proc.pc = "terminated"
            /\ result.states[n] = "TIMEOUT"
            /\ result.times[n] = <<>>
            /\ Len(result.times) = n
            /\ \A i \in 1..(n - 1) : result.states[i] = "EQUIV"
            /\ \A i \in 1..Len(Reads) :
                  \A k \in 1..Len(Reads[i].vals) : Reads[i].vals[k].bound # proc.bound
            /\ result.counterexample =
                  IF Reads = <<>> THEN "None" ELSE Reads[Len(Reads)].vals[4].v
            /\ result.err = IF Reads = <<>> THEN "None" ELSE Reads[Len(Reads)].vals[5].v
            /\ Largest(Completed) = n - 1

\* the timeout struck at bound 2 while its worker was putting its values
C8_Witness ==
    /\ dpc = "done"
    /\ hist.timed_out = "alive"
    /\ result.states = <<"EQUIV", "TIMEOUT">>
    /\ Len(queue) = 3

\* C9: at most one worker is alive; a worker is started only after the one
\* before it has exited and its values have been read; and every value read
\* was put by the worker of the bound it is recorded for.
C9_OneWorkerAtATime ==
    /\ Cardinality({w \in 1..Len(procs) : procs[w].alive}) <= 1
    /\ \A w \in 1..(Len(procs) - 1) :
          /\ ~procs[w].alive
          /\ Len(Reads) >= w
          /\ Len(Reads[w].vals) = procs[w].nput
    /\ \A i \in 1..Len(Reads) :
          /\ ~procs[Reads[i].pos].alive
          /\ \A k \in 1..Len(Reads[i].vals) : Reads[i].vals[k].bound = Reads[i].pos

\* the third worker is running after two full reads
C9_Witness ==
    /\ dpc = "loop"
    /\ Len(procs) = 3
    /\ proc.alive
    /\ proc.nput = 2
    /\ Len(Reads) = 2

\* C10: every run of verify that is not killed from outside puts exactly five
\* values on the queue, so the driver records OOM only for a killed worker.
C10_AlwaysFiveValues ==
    /\ \A w \in 1..Len(procs) : procs[w].pc \in {"exit", "crashed"} => procs[w].nput = 5
    /\ \A i \in 1..Len(Reads) :
          Len(Reads[i].vals) # 5 => procs[Reads[i].pos].pc = "killed"

(***************************************************************************)
(* Properties of table_equivalent                                          *)
(***************************************************************************)
Compared == equiv # None

Uniform(rows) == \A i, j \in 1..Len(rows) : Len(rows[i]) = Len(rows[j])

Perms(n) == {p \in [1..n -> 1..n] : \A i, j \in 1..n : p[i] = p[j] => i = j}

Permuted(rows, p) == [i \in 1..Len(rows) |-> [k \in 1..Len(p) |-> rows[i][p[k]]]]

Count(rows, r) == Cardinality({i \in 1..Len(rows) : rows[i] = r})

SameBag(a, b) ==
    \A r \in {a[i] : i \in 1..Len(a)} \cup {b[i] : i \in 1..Len(b)} :
        Count(a, r) = Count(b, r)

\* same row count, same arity, and some column permutation of b is the bag a
PermEquivalent(a, b) ==
    /\ Len(a) = Len(b)
    /\ a # <<>> =>
          /\ Len(a[1]) = Len(b[1])
          /\ \E p \in Perms(Len(a[1])) : SameBag(a, Permuted(b, p))

Sigs(rows) == [idx \in 1..Len(rows[1]) |-> column_signature(rows, idx)]

\* C11: on tables of uniform arity table_equivalent returns true exactly when
\* row counts and arities agree and some column permutation makes the two
\* bags of rows equal, whether the greedy matching or the fallback decides.
C11_EquivIffPermutation ==
    (Compared /\ Uniform(rows1) /\ Uniform(rows2)) =>
        (equiv = Return(TRUE) <=> PermEquivalent(rows1, rows2))

\* the fallback decided: no greedy mapping, and the first candidate
\* permutation is not the one that makes the bags equal
C11_Witness ==
    /\ equiv = Return(TRUE)
    /\ rows1 # <<>>
    /\ Uniform(rows1) /\ Uniform(rows2)
    /\ greedy_match_by_signature(Sigs(rows1), Sigs(rows2)) = None
    /\ LET perms == generate_candidate_perms(Sigs(rows1), Sigs(rows2))
       IN  /\ Len(perms) >= 2
           /\ ~bags_equal(rows1, apply_perm(rows2, perms[1]))

\* C12: a table is equivalent to each of its column permutations (the
\* identity included), and table_equivalent(R, S) = table_equivalent(S, R).
C12_PermutationSymmetry ==
    Compared =>
        /\ equiv = table_equivalent(rows2, rows1)
        /\ (/\ Uniform(rows1)
            /\ \/ rows1 = <<>> /\ rows2 = <<>>
               \/ /\ rows1 # <<>>
                  /\ \E p \in Perms(Len(rows1[1])) : rows2 = Permuted(rows1, p))
           => equiv = Return(TRUE)

\* rows2 is a column permutation of rows1 that is a different bag of rows
C12_Witness ==
    /\ equiv = Return(TRUE)
    /\ Len(rows1) = 2
    /\ Uniform(rows1)
    /\ Len(rows1[1]) = 3
    /\ \E p \in Perms(3) : rows2 = Permuted(rows1, p)
    /\ ~SameBag(rows1, rows2)

\* C13: two empty inputs are equivalent, and whenever some row of either
\* input differs in length from the first row of rows1 the call raises
\* ValueError, whatever the row counts.
C13_ArityMismatchRaises ==
    Compared =>
        /\ (rows1 = <<>> /\ rows2 = <<>>) => equiv = Return(TRUE)
        /\ (/\ rows1 # <<>>
            /\ \/ \E i \in 1..Len(rows1) : Len(rows1[i]) # Len(rows1[1])
               \/ \E i \in 1..Len(rows2) : Len(rows2[i]) # Len(rows1[1]))
           => equiv = Raise("ValueError")

(***************************************************************************)
(* Properties of GraphSchema and infer_sdt                                 *)
(***************************************************************************)
InferReturned == inferred # None /\ ~IsRaise(inferred)

Nodes == gschema.nodes

Edges == gschema.edges

\* the node and edge types whose table would carry this name
TypesNamed(name) ==
    {<<"node", i>> : i \in {k \in 1..Len(Nodes) : lower(Nodes[k].label) = name}}
        \cup {<<"edge", i>> : i \in {k \in 1..Len(Edges) : lower(Edges[k].label) = name}}

NodeLabelled(label) == Nodes[CHOOSE i \in 1..Len(Nodes) : Nodes[i].label = label]

C16_SdtRules ==
    InferReturned =>
        inferred.sdt =
            [i \in 1..(Len(Nodes) + Len(Edges)) |->
                IF i <= Len(Nodes)
                THEN [left_pred |-> <<Nodes[i].label, Nodes[i].keys>>,
                      right_pred |-> <<lower(Nodes[i].label), Nodes[i].keys>>]
                ELSE LET e == Edges[i - Len(Nodes)]
                     IN  [left_pred |-> <<e.label, e.keys \o <<"SRC", "TGT">>>>,
                          right_pred |-> <<lower(e.label), e.keys \o <<"SRC", "TGT">>>>]]

\* one node rule followed by two edge rules
C16_Witness ==
    /\ InferReturned
    /\ Len(Nodes) = 1
    /\ Len(Edges) = 2
    /\ Len(inferred.sdt) = 3

\* C17: add_edge answers an edge type whose source or target label is not a
\* node label of the schema with SchemaError.
C17_DanglingEdgeSchemaError ==
    (last # None /\ last.op = "add_edge" /\ last.dangling) => last.exc = "SchemaError"

\* C18: node labels are unique, edge labels are unique, no label names both a
\* node and an edge, every edge's source and target are node labels, and
\* every type has at least one key.
C18_SchemaInvariants ==
    gschema # None =>
        /\ \A i, j \in 1..Len(Nodes) : Nodes[i].label = Nodes[j].label => i = j
        /\ \A i, j \in 1..Len(Edges) : Edges[i].label = Edges[j].label => i = j
        /\ \A i \in 1..Len(Nodes) : ~has_label(Edges, Nodes[i].label)
        /\ \A i \in 1..Len(Edges) :
              /\ has_label(Nodes, Edges[i].src_label)
              /\ has_label(Nodes, Edges[i].tgt_label)
              /\ Len(Edges[i].keys) >= 1
        /\ \A i \in 1..Len(Nodes) : Len(Nodes[i].keys) >= 1

\* C19: infer_sdt returns a result on every schema built by add_node and
\* add_edge; it never raises.
C19_InferNeverRaises ==
    inferred # None => ~IsRaise(inferred)

(***************************************************************************)
(* Variable binding in the transpiler                                      *)
(***************************************************************************)
\* the variables bound by the node and edge patterns of a clause
BoundVars(clause) == {clause.pattern.items[i].var : i \in 1..Len(clause.pattern.items)}

RECURSIVE RefVars(_)
\* the variables an expression refers to
RefVars(e) ==
    CASE e.type = "ExprProp" -> {e.var}
      [] e.type = "ExprVar" -> {e.name}
      [] e.type = "ExprAgg" -> RefVars(e.expr)
      [] OTHER -> {}

PredVars(pred) ==
    IF pred = None THEN {} ELSE RefVars(pred.left) \cup RefVars(pred.right)

\* the variables the RETURN list and the WHERE predicate of a query refer to
QueryVars(q) ==
    UNION {RefVars(q.exprs[i]) : i \in 1..Len(q.exprs)} \cup PredVars(q.clause.where)

\* C20: transpile_query raises BindingError, and returns no IR, whenever the
\* RETURN list or the WHERE predicate refers to a variable that no node or
\* edge pattern of the clause binds.
C20_UnboundVariableBindingError ==
    (TranspileRan /\ ~(QueryVars(query) \subseteq BoundVars(query.clause))) =>
        sql_ir = Raise("BindingError")

(***************************************************************************)
(* backend/core/query_parser.py, transpiler.py and verifier.py             *)
(*                                                                         *)
(* A Python str is a string; its i-th character is SubSeq(s, i, i).        *)
(***************************************************************************)
ascii_uppercase == "ABCDEFGHIJKLMNOPQRSTUVWXYZ"

ascii_lowercase == "abcdefghijklmnopqrstuvwxyz"

\* str.lower() and str.upper(), on the characters of the model
char(s, i) == SubSeq(s, i, i)

\* the place of character c in s, 0 if it is not there
str_find(s, c) ==
    LET at == {i \in 1..Len(s) : char(s, i) = c}
    IN  IF at = {} THEN 0 ELSE CHOOSE i \in at : \A j \in at : i <= j

\* the lower-case letter of every upper-case letter, and the other way round
lower_table ==
    [c \in {char(ascii_uppercase, i) : i \in 1..Len(ascii_uppercase)} |->
        char(ascii_lowercase, str_find(ascii_uppercase, c))]

upper_table ==
    [c \in {char(ascii_lowercase, i) : i \in 1..Len(ascii_lowercase)} |->
        char(ascii_uppercase, str_find(ascii_lowercase, c))]

lower_char(c) == IF c \in DOMAIN lower_table THEN lower_table[c] ELSE c

upper_char(c) == IF c \in DOMAIN upper_table THEN upper_table[c] ELSE c

\* character by character, halving the text to keep the recursion shallow
RECURSIVE str_lower(_)
str_lower(s) ==
    IF Len(s) <= 1 THEN lower_char(s)
    ELSE LET h == Len(s) \div 2
         IN  str_lower(SubSeq(s, 1, h)) \o str_lower(SubSeq(s, h + 1, Len(s)))

RECURSIVE str_upper(_)
str_upper(s) ==
    IF Len(s) <= 1 THEN upper_char(s)
    ELSE LET h == Len(s) \div 2
         IN  str_upper(SubSeq(s, 1, h)) \o str_upper(SubSeq(s, h + 1, Len(s)))

\* the characters str.split() splits at
whitespace == {" ", "\n", "\t"}

\* the first place from i on where s has whitespace (or, with skip, has
\* none), Len(s) + 1 if there is no such place
scan(s, i, skip) ==
    CHOOSE n \in i..(Len(s) + 1) :
        /\ n = Len(s) + 1 \/ ((char(s, n) \in whitespace) # skip)
        /\ \A j \in i..(n - 1) : (char(s, j) \in whitespace) = skip

\* str.split(): the maximal runs of non-whitespace characters
RECURSIVE str_split_from(_, _)
str_split_from(s, i) ==
    LET first == scan(s, i, TRUE)
        end == scan(s, first, FALSE)
    IN  IF first > Len(s) THEN <<>>
        ELSE <<SubSeq(s, first, end - 1)>> \o str_split_from(s, end)

str_split(s) == str_split_from(s, 1)

\* sep.join(strs)
RECURSIVE str_join(_, _)
str_join(sep, strs) ==
    IF strs = <<>> THEN ""
    ELSE IF Len(strs) = 1 THEN strs[1]
    ELSE strs[1] \o sep \o str_join(sep, Tail(strs))

\* s.split(c) for a one-character separator: empty pieces are kept
RECURSIVE str_split_at(_, _)
str_split_at(s, c) ==
    LET n == str_find(s, c)
    IN  IF n = 0 THEN <<s>>
        ELSE <<SubSeq(s, 1, n - 1)>> \o str_split_at(SubSeq(s, n + 1, Len(s)), c)

\* sub in s
str_in(sub, s) ==
    \E i \in 0..(Len(s) - Len(sub)) : SubSeq(s, i + 1, i + Len(sub)) = sub

\* The Cypher text, as the parts the regular expressions of CypherParser pick
\* out of it: the pieces of the text after MATCH (none without a MATCH), the
\* items after RETURN, and whether LIMIT follows the RETURN list.
NodePiece(name, label, props) ==
    [piece |-> "node", name |-> name, label |-> label, props |-> props]

\* "-[name:label]" followed by tail, which is "->" or "--"
EdgePiece(name, label, tail) ==
    [piece |-> "edge", name |-> name, label |-> label, tail |-> tail]

CypherText(pieces, items, limit) == [pieces |-> pieces, items |-> items, limit |-> limit]

\* the characters of a piece
piece_raw(p) ==
    IF p.piece = "node"
    THEN "(" \o p.name \o (IF p.label = "" THEN "" ELSE ":" \o p.label)
            \o (IF p.props = <<>> THEN ""
                ELSE " {"
                        \o str_join(", ",
                                    [i \in 1..Len(p.props) |->
                                        p.props[i][1] \o ": " \o p.props[i][2]])
                        \o "}")
            \o ")"
    ELSE "-[" \o p.name \o ":" \o p.label \o "]" \o p.tail

\* _parse_match: node_pattern finds every node, edge_pattern only an edge
\* whose "]" is followed by "--"; every property value is a string
CypherParser_parse_match(pieces) ==
    LET nodes == SelectSeq(pieces, LAMBDA p : p.piece = "node")
        edges == SelectSeq(pieces, LAMBDA p : p.piece = "edge" /\ p.tail = "--")
    IN  [nodes |-> [i \in 1..Len(nodes) |->
                      [name |-> nodes[i].name, label |-> nodes[i].label,
                       properties |-> nodes[i].props]],
         edges |-> [i \in 1..Len(edges) |->
                      [name |-> edges[i].name, label |-> edges[i].label]]]

AggregateNames == <<"COUNT", "SUM", "AVG", "MAX", "MIN">>

\* _parse_return: an item is an aggregation when its text holds a function name
CypherParser_parse_return(items) ==
    [items |-> [i \in 1..Len(items) |->
        [type |-> IF \E k \in 1..Len(AggregateNames) :
                        str_in(AggregateNames[k], str_upper(items[i]))
                  THEN "aggregation" ELSE "projection",
         expression |-> items[i]]]]

\* CypherParser.parse: the MATCH expression stops at a "W" or "w", and the
\* RETURN expression needs ORDER BY or LIMIT after the list
CypherParser_parse(cypher) ==
    LET raw == str_join("", [i \in 1..Len(cypher.pieces) |-> piece_raw(cypher.pieces[i])])
    IN  [match_clauses |->
            IF cypher.pieces # <<>> /\ ~str_in("w", str_lower(raw))
            THEN <<CypherParser_parse_match(cypher.pieces)>> ELSE <<>>,
         return_clause |->
            IF cypher.limit THEN CypherParser_parse_return(cypher.items) ELSE None]

\* the lines "JOIN edge ON ..." and "JOIN next AS ..." of every edge
RECURSIVE transpile_joins(_, _, _)
transpile_joins(nodes, edges, i) ==
    IF i >= Len(edges) THEN <<>>
    ELSE LET edge == edges[i + 1]
             first_node == nodes[1]
             edge_tbl == IF edge.label # "" THEN str_lower(edge.label)
                           ELSE "edge_" \o ToString(i)
             rest == transpile_joins(nodes, edges, i + 1)
         IN  IF i < Len(nodes) - 1
             THEN LET next_node == nodes[i + 2]
                      next_table == IF next_node.label # "" THEN str_lower(next_node.label)
                                    ELSE "nodes"
                  IN  <<"  JOIN " \o edge_tbl \o " ON " \o first_node.name \o ".id = "
                            \o edge_tbl \o ".src",
                        "  JOIN " \o next_table \o " AS " \o next_node.name \o " ON "
                            \o edge_tbl \o ".tgt = " \o next_node.name \o ".id">> \o rest
             ELSE rest

\* the filters node.prop = 'value' of every node property
RECURSIVE transpile_filters(_)
transpile_filters(nodes) ==
    IF nodes = <<>> THEN <<>>
    ELSE [i \in 1..Len(nodes[1].properties) |->
            nodes[1].name \o "." \o nodes[1].properties[i][1] \o " = '"
                \o nodes[1].properties[i][2] \o "'"]
         \o transpile_filters(Tail(nodes))

_transpile_match(match, cte_name, index) ==
    LET nodes == match.nodes
        edges == match.edges
    IN  IF nodes = <<>> THEN cte_name \o " AS (SELECT 1 WHERE 0)"
        ELSE LET first_node == nodes[1]
                 from_table == IF first_node.label # "" THEN str_lower(first_node.label)
                               ELSE "nodes"
                 join_clause == str_join("\n", transpile_joins(nodes, edges, 0))
                 select_clause ==
                    str_join(", ", [i \in 1..Len(nodes) |-> nodes[i].name \o ".*"])
                 where_clauses == transpile_filters(nodes)
             IN  cte_name \o " AS (\n"
                    \o "  SELECT " \o select_clause \o "\n"
                    \o "  FROM " \o from_table \o " AS " \o first_node.name \o "\n"
                    \o (IF join_clause # "" THEN join_clause \o "\n" ELSE "")
                    \o (IF where_clauses # <<>>
                        THEN "  WHERE " \o str_join(" AND ", where_clauses) \o "\n"
                        ELSE "")
                    \o ")"

\* the GROUP BY columns: of every projection with a ".", the text after the
\* last "." up to the first blank, unless it is "*"
RECURSIVE group_by_items(_)
group_by_items(items) ==
    IF items = <<>> THEN <<>>
    ELSE LET col_parts == str_split_at(items[1].expression, ".")
             col == str_split_at(col_parts[Len(col_parts)], " ")[1]
         IN  (IF items[1].type # "aggregation" /\ Len(col_parts) > 1 /\ col # "*"
              THEN <<col>> ELSE <<>>)
             \o group_by_items(Tail(items))

_transpile_return(return_clause) ==
    LET items == return_clause.items
        select_clause == str_join(",\n    ", [i \in 1..Len(items) |-> items[i].expression])
        sql == "SELECT " \o select_clause \o "\nFROM " \o "t1"
        groups == group_by_items(items)
    IN  IF groups # <<>> THEN sql \o "\nGROUP BY " \o str_join(", ", groups) ELSE sql

\* CypherToSQLTranspiler.transpile
transpile(cypher) ==
    LET parsed == CypherParser_parse(cypher)
        cte_definitions ==
            [i \in 1..Len(parsed.match_clauses) |->
                _transpile_match(parsed.match_clauses[i], "t" \o ToString(i), i - 1)]
        with_part == IF cte_definitions # <<>>
                     THEN <<"WITH " \o str_join(",\n", cte_definitions)>> ELSE <<>>
        select_part == IF parsed.return_clause # None
                       THEN <<_transpile_return(parsed.return_clause)>> ELSE <<>>
    IN  str_join("\n", with_part \o select_part)

\* ' '.join(sql.lower().split())
normalized(sql) == str_join(" ", str_split(str_lower(sql)))

\* time_ms, a reading of the wall clock, is left out of the report
EquivalenceReport(res, checked_bound, method, norm1, norm2) ==
    [result |-> res, checked_bound |-> checked_bound,
     details |-> [method |-> method, backend |-> IF method = "bounded" THEN "verieql"
                                                  ELSE "mediator",
                  normalized_sql1 |-> norm1, normalized_sql2 |-> norm2]]

_verify_with_verieql(sql1, sql2) ==
    LET norm1 == normalized(sql1)
        norm2 == normalized(sql2)
    IN  EquivalenceReport(IF norm1 = norm2 THEN "EQUIVALENT" ELSE "NOT_EQUIVALENT",
                          PyInt(20), "bounded", norm1, norm2)

_verify_with_mediator(sql1, sql2) ==
    LET norm1 == normalized(sql1)
        norm2 == normalized(sql2)
    IN  EquivalenceReport(IF norm1 = norm2 THEN "EQUIVALENT" ELSE "NOT_EQUIVALENT",
                          None, "full", norm1, norm2)

\* EquivalenceVerifier.verify: a new transpiler for every call
verify(cypher, sql) ==
    LET transpiled_sql == transpile(cypher)
    IN  IF backend = "verieql" THEN _verify_with_verieql(transpiled_sql, sql)
        ELSE _verify_with_mediator(transpiled_sql, sql)

\* every whitespace character of s replaced by the text r
RECURSIVE respaced(_, _)
respaced(s, r) ==
    IF Len(s) <= 1 THEN IF s \in whitespace THEN r ELSE s
    ELSE LET h == Len(s) \div 2
         IN  respaced(SubSeq(s, 1, h), r) \o respaced(SubSeq(s, h + 1, Len(s)), r)

\* the characters SQL reads as a token of their own
punctuation == {"(", ")", ",", ".", "*", "="}

\* the last place of the run of whitespace of s that begins at place i
run_end(s, i) ==
    CHOOSE j \in i..Len(s) :
        /\ \A k \in i..j : char(s, k) \in whitespace
        /\ (j = Len(s) \/ char(s, j + 1) \notin whitespace)

\* the runs of whitespace inside s that touch a punctuation character
loose_runs(s) ==
    {<<i, run_end(s, i)>> :
        i \in {i \in 2..Len(s) :
                  /\ char(s, i) \in whitespace
                  /\ char(s, i - 1) \notin whitespace
                  /\ run_end(s, i) < Len(s)
                  /\ (char(s, i - 1) \in punctuation
                        \/ char(s, run_end(s, i) + 1) \in punctuation)}}

\* the places of s where a punctuation character touches another token
tight_places(s) ==
    {i \in 1..(Len(s) - 1) :
        /\ char(s, i) \notin whitespace
        /\ char(s, i + 1) \notin whitespace
        /\ (char(s, i) \in punctuation \/ char(s, i + 1) \in punctuation)}

\* SQL texts that differ from sql in letter case or in whitespace between tokens
SqlVariants(sql) ==
    {sql, str_upper(sql), str_lower(sql), " " \o sql \o "\n",
     respaced(sql, "\t"), respaced(sql, " \n")}
    \cup {SubSeq(sql, 1, r[1] - 1) \o SubSeq(sql, r[2] + 1, Len(sql)) : r \in loose_runs(sql)}
    \cup {SubSeq(sql, 1, i) \o " " \o SubSeq(sql, i + 1, Len(sql)) : i \in tight_places(sql)}

\* the query of test_equivalent_queries and queries through every branch of
\* the parser and the transpiler
TestCypher == CypherText(<<NodePiece("n", "Person", <<>>)>>, <<"n.id", "n.name">>, FALSE)

TestSql == "SELECT id, name FROM Person"

CypherTexts ==
    {TestCypher,
     CypherText(<<NodePiece("n", "Person", <<>>)>>, <<"n.id AS x", "n.*">>, TRUE),
     CypherText(<<NodePiece("n", "", <<<<"name", "'Al'">>>>)>>, <<"n.id">>, FALSE),
     CypherText(<<NodePiece("a", "Person", <<>>), EdgePiece("r", "LIKES", "--"),
                  NodePiece("b", "City", <<>>)>>, <<"a.name", "count(*)">>, TRUE),
     CypherText(<<NodePiece("a", "Person", <<>>), EdgePiece("r", "KNOWS", "->"),
                  NodePiece("b", "Person", <<>>)>>, <<"a.name">>, TRUE),
     CypherText(<<>>, <<"1">>, FALSE)}

\* the calls of verify: a query with a variant of its transpilation, or with
\* the SQL of the test
VerifyCalls ==
    {[cypher |-> c, sql |-> s] : c \in CypherTexts, s \in {TestSql}}
    \cup UNION {{[cypher |-> c, sql |-> s] : s \in SqlVariants(transpile(c))} : c \in CypherTexts}

Verify ==
    /\ backend # "off"
    /\ verified < MaxVerifies
    /\ \E call \in VerifyCalls :
          /\ cypher_query' = call.cypher
          /\ sql_query' = call.sql
          /\ report' = verify(call.cypher, call.sql)
    /\ verified' = verified + 1
    /\ UNCHANGED backend
    /\ UNCHANGED <<tvars, dvars, qvars, svars, yvars>>

NextVerify == Verify

\* EquivalenceVerifier(backend)
InitVerify ==
    /\ backend \in {"verieql", "mediator"}
    /\ cypher_query = None
    /\ sql_query = ""
    /\ report = None
    /\ verified = 0
    /\ tidle
    /\ dormant
    /\ qidle
    /\ sidle
    /\ yidle

SpecVerify == InitVerify /\ [][NextVerify]_vars

(***************************************************************************)
(* The symbolic database of the bounded verifier                           *)
(* (src/backend/core/environment.py, src/backend/core/utils.py)            *)
(*                                                                         *)
(* Z3 terms are records; z3_eval is their value under an interpretation    *)
(* of the functions DELETED, NULL and VALUE.  Every table of the model has *)
(* one attribute, so an interpretation gives each tuple sort a DELETED     *)
(* flag, a NULL flag and a VALUE.                                          *)
(***************************************************************************)
MaxBoundSize == 2

Z3_TRUE == [op |-> "BoolVal", val |-> TRUE]
Z3_FALSE == [op |-> "BoolVal", val |-> FALSE]
And(args) == [op |-> "And", args |-> args]
Or(args) == [op |-> "Or", args |-> args]
Not(arg) == [op |-> "Not", args |-> <<arg>>]
If(c, a, b) == [op |-> "If", args |-> <<c, a, b>>]
Implies(a, b) == [op |-> "Implies", args |-> <<a, b>>]
Eq(a, b) == [op |-> "==", args |-> <<a, b>>]
DELETED_FUNCTION(t) == [op |-> "DELETED", tuple |-> t]
AttributeNULL(attr, t) == [op |-> "NULL", attr |-> attr, tuple |-> t]
AttributeVALUE(attr, t) == [op |-> "VALUE", attr |-> attr, tuple |-> t]
\* the fresh symbol x<n> of create_database; it occurs in one fact only
FSymbol(n) == [op |-> "Symbol", n |-> n]

\* The value of a term under interpretation I.  A fresh symbol takes the value
\* of the term it is bound to, so the fact that binds it holds.
RECURSIVE z3_eval(_, _)
z3_eval(f, I) ==
    CASE f.op = "BoolVal" -> f.val
      [] f.op = "And" -> \A i \in DOMAIN f.args : z3_eval(f.args[i], I)
      [] f.op = "Or" -> \E i \in DOMAIN f.args : z3_eval(f.args[i], I)
      [] f.op = "Not" -> ~z3_eval(f.args[1], I)
      [] f.op = "If" -> IF z3_eval(f.args[1], I) THEN z3_eval(f.args[2], I)
                        ELSE z3_eval(f.args[3], I)
      [] f.op = "Implies" -> z3_eval(f.args[1], I) => z3_eval(f.args[2], I)
      [] f.op = "==" -> IF f.args[2].op = "Symbol" THEN TRUE
                        ELSE z3_eval(f.args[1], I) = z3_eval(f.args[2], I)
      [] f.op = "DELETED" -> I[f.tuple].DELETED
      [] f.op = "NULL" -> I[f.tuple].NULL
      [] f.op = "VALUE" -> I[f.tuple].VALUE

FExpressionTuple(null, value) == [NULL |-> null, VALUE |-> value]

encode_same(null1, null2, value1, value2) ==
    Or(<<And(<<null1, null2>>), And(<<Not(null1), Not(null2), Eq(value1, value2)>>)>>)

encode_equality(null1, null2, value1, value2) ==
    And(<<Not(null1), Not(null2), Eq(value1, value2)>>)

simplify(formulas, operator) ==
    IF operator = "And" THEN And(formulas) ELSE Or(formulas)

\* s.find(sub): the place before the first occurrence, -1 if there is none
str_find_sub(s, sub) ==
    LET at == {i \in 0..(Len(s) - Len(sub)) : SubSeq(s, i + 1, i + Len(sub)) = sub}
    IN  IF at = {} THEN -1 ELSE CHOOSE i \in at : \A j \in at : i <= j

\* the schema of the model: a referencing table and the table it references
SchemaTables == {"CHILD", "PARENT"}
TableAttribute == [CHILD |-> "CHILD__PID", PARENT |-> "PARENT__ID"]

\* self.databases[name].tuples
table_tuples(dbs, name) == (CHOOSE d \in dbs : d.name = name).tuples

\* the tuple sorts of every table created
AllTuples(dbs) == UNION {{d.tuples[i] : i \in DOMAIN d.tuples} : d \in dbs}

\* Environment.create_database(attributes, bound_size, name): bound_size tuple
\* sorts, each entered in NON_DEL_TUPLES, and for each field the fact that
\* binds its attribute value to a fresh symbol.  The attributes of the model
\* have no type, so there are no type constraints.
create_database_tuples(name, size) == [i \in 1..size |-> <<name, i>>]

create_database_facts(name, size, symbolic_count) ==
    [i \in 1..size |->
        Eq(AttributeVALUE(TableAttribute[name], <<name, i>>), FSymbol(symbolic_count + i - 1))]

CreateDatabase ==
    /\ constraint = None
    /\ \E name \in SchemaTables, size \in 1..MaxBoundSize :
          /\ \A d \in databases : d.name # name /\ Len(d.tuples) = size
          /\ databases' = databases \cup {[name |-> name, tuples |-> create_database_tuples(name, size)]}
          /\ NON_DEL_TUPLES' = NON_DEL_TUPLES \o create_database_tuples(name, size)
          /\ DBMS_facts' = DBMS_facts \o create_database_facts(name, size, Len(DBMS_facts))
    /\ UNCHANGED <<constraint, model>>
    /\ UNCHANGED <<tvars, dvars, qvars, svars, bvars, kvars, wvars>>

\* constraints as read from the schema file
ForeignConstraint == [foreign |-> <<[value |-> "CHILD__PID"], [value |-> "PARENT__ID"]>>]
SubsetConstraint(sub, table) == [subset |-> <<[value |-> sub], [value |-> table]>>]

\* _get_attribute(expr) of add_constraints: the (NULL, VALUE) pair of the
\* attribute on every tuple of its table
_get_attribute(dbs, expr) ==
    LET table_name == SubSeq(expr, 1, str_find_sub(expr, "__"))
        tuples == table_tuples(dbs, table_name)
    IN  [i \in DOMAIN tuples |->
            FExpressionTuple(AttributeNULL(expr, tuples[i]), AttributeVALUE(expr, tuples[i]))]

\* case 'foreign' of _f
foreign(dbs, operands) ==
    LET lhs_attrs == _get_attribute(dbs, operands[1].value)
        rhs_attrs == _get_attribute(dbs, operands[2].value)
    IN  And([i \in DOMAIN lhs_attrs |->
                Or([j \in DOMAIN rhs_attrs |->
                      encode_equality(lhs_attrs[i].NULL, rhs_attrs[j].NULL,
                                      lhs_attrs[i].VALUE, rhs_attrs[j].VALUE)])])

\* dict.pop(key): the dict without the key; the keys keep their order
pop(non_del, key) == SelectSeq(non_del, LAMBDA t : t # key)

in_seq(x, xs) == \E i \in DOMAIN xs : xs[i] = x

\* case 'subset' of _f, over the pairs of zip(table, sub_table) from idx on.
\* It pops both tuples of every pair from NON_DEL_TUPLES; popping a tuple
\* that is no longer there raises KeyError.
RECURSIVE subset_loop(_, _, _, _, _, _)
subset_loop(table, sub_table, idx, non_del, out, exprs) ==
    IF idx > Len(table) \/ idx > Len(sub_table)
    THEN [out |-> simplify(out, "And"), NON_DEL_TUPLES |-> non_del]
    ELSE LET t_sort == table[idx]
             sub_t_sort == sub_table[idx]
         IN  IF ~in_seq(t_sort, non_del) \/ ~in_seq(sub_t_sort, non_del)
             THEN Raise("KeyError")
             ELSE subset_loop(table, sub_table, idx + 1,
                      pop(pop(non_del, t_sort), sub_t_sort),
                      out \o <<Not(DELETED_FUNCTION(t_sort)),
                               Implies(Not(DELETED_FUNCTION(sub_t_sort)),
                                   And(<<encode_same(AttributeNULL(exprs[2], t_sort),
                                                     AttributeNULL(exprs[1], sub_t_sort),
                                                     AttributeVALUE(exprs[2], t_sort),
                                                     AttributeVALUE(exprs[1], sub_t_sort))>>))>>,
                      exprs)

subset(dbs, operands, non_del) ==
    subset_loop(table_tuples(dbs, operands[2].value), table_tuples(dbs, operands[1].value),
                1, non_del, <<>>,
                <<TableAttribute[operands[1].value], TableAttribute[operands[2].value]>>)

\* _f(expr) of add_constraints on one constraint of the list
_f(dbs, expr, non_del) ==
    IF "foreign" \in DOMAIN expr
    THEN [out |-> foreign(dbs, expr.foreign), NON_DEL_TUPLES |-> non_del]
    ELSE subset(dbs, expr.subset, non_del)

\* the loop of add_constraints over the constraints from idx on
RECURSIVE add_constraints_loop(_, _, _, _, _)
add_constraints_loop(dbs, constraints, idx, non_del, facts) ==
    IF idx > Len(constraints)
    THEN [DBMS_facts |-> facts, NON_DEL_TUPLES |-> non_del]
    ELSE LET built == _f(dbs, constraints[idx], non_del)
         IN  IF IsRaise(built)
             THEN [DBMS_facts |-> facts, NON_DEL_TUPLES |-> non_del, raised |-> built]
             ELSE add_constraints_loop(dbs, constraints, idx + 1, built.NON_DEL_TUPLES,
                                       Append(facts, built.out))

\* Environment.add_constraints(constraints, NON_DEL_TUPLES): the fact of every
\* constraint, then Not(DELETED(t)) for every tuple still in NON_DEL_TUPLES
add_constraints(dbs, constraints, non_del, facts) ==
    LET done == add_constraints_loop(dbs, constraints, 1, non_del, facts)
    IN  IF "raised" \in DOMAIN done THEN done
        ELSE [DBMS_facts |-> done.DBMS_facts \o
                    [i \in DOMAIN done.NON_DEL_TUPLES |->
                        Not(DELETED_FUNCTION(done.NON_DEL_TUPLES[i]))],
              NON_DEL_TUPLES |-> done.NON_DEL_TUPLES]

\* the constraint lists of the model: the foreign key, alone or with one table
\* declared a subset of the other
ConstraintLists ==
    {<<ForeignConstraint>>}
    \cup {<<ForeignConstraint, SubsetConstraint(s, t)>> : <<s, t>> \in {<<"CHILD", "PARENT">>, <<"PARENT", "CHILD">>}}
    \cup {<<SubsetConstraint(s, t), ForeignConstraint>> : <<s, t>> \in {<<"CHILD", "PARENT">>, <<"PARENT", "CHILD">>}}
    \cup {<<SubsetConstraint("CHILD", "PARENT"), ForeignConstraint, SubsetConstraint("PARENT", "CHILD")>>}

AddConstraints ==
    /\ constraint = None
    /\ {d.name : d \in databases} = SchemaTables
    /\ \E constraints \in ConstraintLists :
          LET done == add_constraints(databases, constraints, NON_DEL_TUPLES, DBMS_facts)
          IN  /\ constraint' = [list |-> constraints]
              /\ DBMS_facts' = done.DBMS_facts
              /\ NON_DEL_TUPLES' = done.NON_DEL_TUPLES
              /\ model' = IF "raised" \in DOMAIN done THEN done.raised ELSE None
    /\ UNCHANGED databases
    /\ UNCHANGED <<tvars, dvars, qvars, svars, bvars, kvars, wvars>>

\* the interpretations of DELETED, NULL and VALUE over the tuple sorts
Interpretations(dbs) ==
    [AllTuples(dbs) -> [DELETED : BOOLEAN, NULL : BOOLEAN, VALUE : 0..1]]

satisfies(I, facts) == \A i \in DOMAIN facts : z3_eval(facts[i], I)

\* Environment.analyze: solver.check() over the facts and solver.model().  The
\* queries compared add their own formula, so the model is any interpretation
\* that satisfies the facts of the database.
Analyze ==
    /\ constraint # None
    /\ model = None
    /\ \/ \E I \in Interpretations(databases) :
             /\ satisfies(I, DBMS_facts)
             /\ model' = [sat |-> TRUE, eval |-> I]
       \/ model' = [sat |-> FALSE]
    /\ UNCHANGED <<databases, NON_DEL_TUPLES, DBMS_facts, constraint>>
    /\ UNCHANGED <<tvars, dvars, qvars, svars, bvars, kvars, wvars>>

NextDatabase == CreateDatabase \/ AddConstraints \/ Analyze

\* Environment(): no table, no fact
InitDatabase ==
    /\ databases = {}
    /\ NON_DEL_TUPLES = <<>>
    /\ DBMS_facts = <<>>
    /\ constraint = None
    /\ model = None
    /\ tidle
    /\ dormant
    /\ qidle
    /\ sidle
    /\ bidle
    /\ kidle
    /\ widle

SpecDatabase == InitDatabase /\ [][NextDatabase]_vars

(***************************************************************************)
(* The three-valued connectives (src/backend/core/utils.py)                *)
(***************************************************************************)
MaxOperands == 3

\* the connective without the premise: NULL as soon as an operand is NULL
encode_concate_by_and_strict(nulls_, values_) ==
    FExpressionTuple(simplify(nulls_, "Or"), And(values_))

encode_concate_by_and(nulls_, values_) ==
    LET premise == And(<<Or(nulls_),
                         Or([i \in DOMAIN nulls_ |-> If(nulls_[i], Z3_FALSE, Not(values_[i]))])>>)
    IN  FExpressionTuple(If(premise, Z3_FALSE, simplify(nulls_, "Or")),
                         If(premise, Z3_FALSE, And(values_)))

encode_concate_by_or(nulls_, values_) ==
    LET premise == And(<<Or(nulls_),
                         Or([i \in DOMAIN nulls_ |-> If(nulls_[i], Z3_FALSE, values_[i])])>>)
    IN  FExpressionTuple(If(premise, Z3_FALSE, simplify(nulls_, "Or")),
                         If(premise, Z3_TRUE, Or(values_)))

EncodeConcateByAnd ==
    /\ nulls # <<>>
    /\ concat = None
    /\ concat' = [fn |-> "and", out |-> encode_concate_by_and(nulls, values)]
    /\ UNCHANGED <<nulls, values>>
    /\ UNCHANGED <<tvars, dvars, qvars, svars, bvars, cvars, wvars>>

EncodeConcateByOr ==
    /\ nulls # <<>>
    /\ concat = None
    /\ concat' = [fn |-> "or", out |-> encode_concate_by_or(nulls, values)]
    /\ UNCHANGED <<nulls, values>>
    /\ UNCHANGED <<tvars, dvars, qvars, svars, bvars, cvars, wvars>>

NextConcat == EncodeConcateByAnd \/ EncodeConcateByOr

\* the operands: one to MaxOperands pairs of a NULL flag and a value, every
\* combination of them
InitConcat ==
    /\ \E n \in 1..MaxOperands :
          /\ nulls \in [1..n -> {Z3_TRUE, Z3_FALSE}]
          /\ values \in [1..n -> {Z3_TRUE, Z3_FALSE}]
    /\ concat = None
    /\ tidle
    /\ dormant
    /\ qidle
    /\ sidle
    /\ bidle
    /\ cidle
    /\ widle

SpecConcat == InitConcat /\ [][NextConcat]_vars

(***************************************************************************)
(* The benchmark run (src/backend/core/cli_verieql.py: train, core;        *)
(* src/backend/core/utils.py: divide)                                      *)
(*                                                                         *)
(* An input pair is its line number in the benchmark file.  A result       *)
(* record is the index of the pair process_ends_with_max_timeout was       *)
(* called with.                                                            *)
(***************************************************************************)
MaxPairs == 3
MaxCores == 3

\* math.ceil(a / b) for a >= 0, b >= 1
ceil(a, b) == (a + b - 1) \div b

\* range(start, stop, step) for step > 0, as the sequence of its values
RECURSIVE range(_, _, _)
range(start, stop, step) ==
    IF start >= stop THEN <<>> ELSE <<start>> \o range(start + step, stop, step)

\* lst[i:j]
slice(lst, i, j) == SubSeq(lst, i + 1, IF j < Len(lst) THEN j ELSE Len(lst))

\* list(divide(lst, partitions)); range() raises ValueError on a zero step
divide(lst, partitions) ==
    LET chunck_size == ceil(Len(lst), partitions)
    IN  IF chunck_size = 0 THEN Raise("ValueError")
        ELSE LET starts == range(0, Len(lst), chunck_size)
             IN  [list |-> [k \in DOMAIN starts |-> slice(lst, starts[k], starts[k] + chunck_size)]]

\* a file that does not exist, and a file with its lines
NoFile == [exists |-> FALSE, lines |-> <<>>]
File(ls) == [exists |-> TRUE, lines |-> ls]

\* a call of core: the chunk it was given and how far it is
new_core(chunk) == [chunk |-> chunk, pos |-> 0, alive |-> TRUE]

\* train up to the calls of core: read the pairs, then either call core on
\* all of them (one core) or divide them and start a process per chunk
TrainStart ==
    /\ train_pc = "init"
    /\ LET parameters == [idx \in 1..benchmark |-> idx]
       IN  /\ count' = Len(parameters)
           /\ IF num_cores = 1
              THEN /\ core_procs' = <<new_core(parameters)>>
                   /\ train_pc' = "core"
              ELSE LET chunks == divide(parameters, num_cores)
                   IN  IF IsRaise(chunks)
                       THEN /\ core_procs' = <<>>
                            /\ train_pc' = "raised"
                       ELSE /\ core_procs' = [w \in DOMAIN chunks.list |-> new_core(chunks.list[w])]
                            /\ train_pc' = "join"
    /\ files' = [w \in DOMAIN core_procs' |-> NoFile]
    /\ UNCHANGED <<benchmark, num_cores, out_file>>
    /\ UNCHANGED <<tvars, dvars, qvars, svars, bvars, cvars, kvars>>

\* core: open(out_file, 'w')
CoreOpen(w) ==
    /\ core_procs[w].alive
    /\ ~files[w].exists
    /\ files' = [files EXCEPT ![w] = File(<<>>)]
    /\ UNCHANGED <<benchmark, num_cores, train_pc, count, core_procs, out_file>>
    /\ UNCHANGED <<tvars, dvars, qvars, svars, bvars, cvars, kvars>>

\* core: one turn of its loop, process_ends_with_max_timeout on the next pair
\* and its result printed to the file
CoreWrite(w) ==
    /\ core_procs[w].alive
    /\ files[w].exists
    /\ core_procs[w].pos < Len(core_procs[w].chunk)
    /\ files' = [files EXCEPT ![w].lines = Append(@, core_procs[w].chunk[core_procs[w].pos + 1])]
    /\ core_procs' = [core_procs EXCEPT ![w].pos = @ + 1]
    /\ UNCHANGED <<benchmark, num_cores, train_pc, count, out_file>>
    /\ UNCHANGED <<tvars, dvars, qvars, svars, bvars, cvars, kvars>>

\* core returns
CoreExit(w) ==
    /\ core_procs[w].alive
    /\ files[w].exists
    /\ core_procs[w].pos = Len(core_procs[w].chunk)
    /\ core_procs' = [core_procs EXCEPT ![w].alive = FALSE]
    /\ UNCHANGED <<benchmark, num_cores, train_pc, count, files, out_file>>
    /\ UNCHANGED <<tvars, dvars, qvars, svars, bvars, cvars, kvars>>

\* one core: core wrote args.out_file itself, and train returns
TrainReturn ==
    /\ train_pc = "core"
    /\ ~core_procs[1].alive
    /\ out_file' = files[1]
    /\ files' = <<>>
    /\ train_pc' = "done"
    /\ UNCHANGED <<benchmark, num_cores, count, core_procs>>
    /\ UNCHANGED <<tvars, dvars, qvars, svars, bvars, cvars, kvars>>

\* the lines of the files from the w-th on, in the order of the workers
RECURSIVE read_files(_, _)
read_files(fs, w) ==
    IF w > Len(fs) THEN <<>> ELSE fs[w].lines \o read_files(fs, w + 1)

\* several cores: every process joined, then the files read in the order of
\* the workers and removed, the count asserted and the records written
TrainMerge ==
    /\ train_pc = "join"
    /\ \A w \in DOMAIN core_procs : ~core_procs[w].alive
    /\ LET results == read_files(files, 1)
       IN  IF Len(results) = count
           THEN /\ out_file' = File(results)
                /\ train_pc' = "done"
           ELSE /\ out_file' = File(<<>>)
                /\ train_pc' = "raised"
    /\ files' = [w \in DOMAIN files |-> NoFile]
    /\ UNCHANGED <<benchmark, num_cores, count, core_procs>>
    /\ UNCHANGED <<tvars, dvars, qvars, svars, bvars, cvars, kvars>>

Core(w) == CoreOpen(w) \/ CoreWrite(w) \/ CoreExit(w)

NextTrain ==
    \/ TrainStart
    \/ TrainReturn
    \/ TrainMerge
    \/ \E w \in DOMAIN core_procs : Core(w)

\* train(args): a benchmark file of any number of pairs, any number of cores
InitTrain ==
    /\ benchmark \in 0..MaxPairs
    /\ num_cores \in 1..MaxCores
    /\ train_pc = "init"
    /\ count = 0
    /\ core_procs = <<>>
    /\ files = <<>>
    /\ out_file = NoFile
    /\ tidle
    /\ dormant
    /\ qidle
    /\ sidle
    /\ bidle
    /\ cidle
    /\ kidle

SpecTrain == InitTrain /\ [][NextTrain]_vars

(***************************************************************************)
(* Properties of the parser and the printer                                *)
(***************************************************************************)
\* an aggregate whose argument is an aggregate
NestedAgg(e) == e.type = "ExprAgg" /\ e.expr.type = "ExprAgg"

\* a lowered function call whose argument is a function call
NestedFunc(x) == x.kind = "func" /\ \E i \in 2..Len(x.args) : x.args[i].kind = "func"

\* C21: transpile_query raises SemanticsError when a RETURN expression is an
\* aggregate whose argument is itself an aggregate, and no GroupBy whose items
\* contain a nested aggregate is ever produced.
C21_NestedAggregateSemanticsError ==
    /\ (TranspileRan /\ Supported(text.exprs)
           /\ \E i \in 1..Len(text.exprs) : NestedAgg(text.exprs[i]))
          => sql_ir = Raise("SemanticsError")
    /\ (Transpiled /\ sql_ir.node = "GroupBy")
          => \A i \in 1..Len(sql_ir.items) : ~NestedFunc(sql_ir.items[i][2])

\* parse_query has run
ParseRan == query # None

\* nodes at the odd places, edges at the even places, a node at each end
Alternates(items, field, node, edges) ==
    /\ Len(items) % 2 = 1
    /\ \A i \in 1..Len(items) :
          IF i % 2 = 1 THEN items[i][field] = node ELSE items[i][field] \in edges

\* C22: every PathPat parse_query returns alternates NodePat and EdgePat and
\* begins and ends with a NodePat, and a pattern text that does not (adjacent
\* nodes, adjacent edges, a leading or a trailing edge) raises ParseError.
C22_PatternAlternates ==
    /\ (ParseRan /\ ~IsRaise(query))
          => Alternates(query.clause.pattern.items, "type", "NodePat", {"EdgePat"})
    /\ (ParseRan /\ ~Alternates(text.pattern, "re", "NODE_RE", EdgeRegexes))
          => query = Raise("ParseError")

\* the comparison n0.pid = n, as text and as the predicate it should parse to
CmpText(n) == CompareText("n0", "pid", "=", n)

Cmp(n) == PredicateCompare(ExprProp("n0", "pid"), "=", PyInt(n))

\* parse_query returned a query whose WHERE predicate is pred
ParsedWhere(pred) == ~IsRaise(query) /\ query.clause.where = pred

\* C23: OR binds loosest, then AND, then NOT, then comparison:
\* "a OR b AND c" parses to Or(a, And(b, c)), "a AND b OR c" to
\* Or(And(a, b), c) and "NOT a AND b" to And(Not(a), b).
C23_WherePrecedence ==
    ParseRan =>
        /\ text.where = <<CmpText(1), Word("OR"), CmpText(2), Word("AND"), CmpText(3)>>
              => ParsedWhere(PredicateOr(Cmp(1), PredicateAnd(Cmp(2), Cmp(3))))
        /\ text.where = <<CmpText(1), Word("AND"), CmpText(2), Word("OR"), CmpText(3)>>
              => ParsedWhere(PredicateOr(PredicateAnd(Cmp(1), Cmp(2)), Cmp(3)))
        /\ text.where = <<Word("NOT"), CmpText(1), Word("AND"), CmpText(2)>>
              => ParsedWhere(PredicateAnd(PredicateNot(Cmp(1)), Cmp(2)))

\* a join tree written as one chain, left to right, without parentheses
RECURSIVE FlatChain(_)
FlatChain(rel) ==
    IF rel.node = "Join"
    THEN FlatChain(rel.left)
            \o (IF rel.kind = "left" THEN " LEFT JOIN " ELSE " INNER JOIN ")
            \o rel.right.table \o " AS " \o rel.right.alias
            \o " ON " \o _predicate(rel.on)
    ELSE rel.table \o " AS " \o rel.alias

\* C24: to_sql prints the joins of a path as one flat left-to-right chain with
\* no parentheses around a join's left operand; for the Person-WORKS_AT-Company
\* match the text is SELECT p.pid AS pid, c.cid AS cid FROM person AS p
\* INNER JOIN works_at AS w ON p.pid = w.SRC INNER JOIN company AS c ON w.TGT = c.cid.
C24_FlatJoinChain ==
    tpc = "printed" =>
        /\ sql_text = "SELECT " \o select_list(sql_ir.items)
                          \o " FROM " \o FlatChain(JoinTree(sql_ir))
                          \o (IF sql_ir.sub.node = "Select"
                              THEN " WHERE " \o _predicate(sql_ir.sub.pred) ELSE "")
        /\ text = MatchJoinText
              => sql_text = "SELECT p.pid AS pid, c.cid AS cid FROM person AS p "
                            \o "INNER JOIN works_at AS w ON p.pid = w.SRC "
                            \o "INNER JOIN company AS c ON w.TGT = c.cid"

(***************************************************************************)
(* Properties of the backend verifier                                      *)
(***************************************************************************)
\* a blank on each side of every punctuation character, the rest in lower case
RECURSIVE Spaced(_)
Spaced(s) ==
    IF Len(s) <= 1 THEN IF s \in punctuation THEN " " \o s \o " " ELSE lower_char(s)
    ELSE LET h == Len(s) \div 2
         IN  Spaced(SubSeq(s, 1, h)) \o Spaced(SubSeq(s, h + 1, Len(s)))

\* the tokens SQL reads in a text: words and punctuation characters, in
\* lower case, whatever whitespace lies between them
SqlTokens(s) == str_split(Spaced(s))

\* C25: verify(Q, SQL) returns EQUIVALENT whenever SQL is the transpilation of
\* Q up to whitespace and letter case, for either backend and however many
\* verifications ran before.
C25_SelfEquivalent ==
    (report # None /\ SqlTokens(sql_query) = SqlTokens(transpile(cypher_query)))
        => report.result = "EQUIVALENT"

\* C26: verify returns EQUIVALENT for MATCH (n:Person) RETURN n.id, n.name
\* against SELECT id, name FROM Person, which returns the same columns of the
\* same table.
C26_SameColumnsEquivalent ==
    (report # None /\ cypher_query = TestCypher /\ sql_query = TestSql)
        => report.result = "EQUIVALENT"

(***************************************************************************)
(* Properties of the symbolic database                                     *)
(***************************************************************************)
\* what a foreign key from CHILD to PARENT is to state of interpretation I:
\* every CHILD tuple is deleted, or a PARENT tuple that is not deleted has a
\* non-null key equal to the tuple's non-null foreign key
ForeignKeyStated(I) ==
    \A c \in DOMAIN table_tuples(databases, "CHILD") :
        LET lhs == table_tuples(databases, "CHILD")[c]
        IN  \/ I[lhs].DELETED
            \/ \E p \in DOMAIN table_tuples(databases, "PARENT") :
                  LET rhs == table_tuples(databases, "PARENT")[p]
                  IN  /\ ~I[rhs].DELETED
                      /\ ~I[rhs].NULL
                      /\ ~I[lhs].NULL
                      /\ I[rhs].VALUE = I[lhs].VALUE

\* the fact add_constraints appended for the idx-th constraint of its list
ConstraintFact(idx) == DBMS_facts[Cardinality(AllTuples(databases)) + idx]

\* C27: the fact add_constraints builds for a foreign key holds in exactly the
\* interpretations where every tuple of the referencing table is DELETED or
\* has a non-deleted tuple of the referenced table with a non-null key equal
\* to its non-null foreign key: a deleted referencing tuple is unconstrained,
\* a deleted referenced tuple is no match.
C27_ForeignKeyFact ==
    constraint # None =>
        \A idx \in DOMAIN constraint.list :
            "foreign" \in DOMAIN constraint.list[idx] =>
                \A I \in Interpretations(databases) :
                    z3_eval(ConstraintFact(idx), I) <=> ForeignKeyStated(I)

(***************************************************************************)
(* Properties of the three-valued connectives                              *)
(***************************************************************************)
\* the truth value of a constant term
Holds(term) == z3_eval(term, <<>>)

\* operand i is not NULL and has value val
NonNull(i, val) == ~Holds(nulls[i]) /\ Holds(values[i]) = val

SomeNull == \E i \in DOMAIN nulls : Holds(nulls[i])

\* the result is not NULL and has value val
ConcatIs(val) == ~Holds(concat.out.NULL) /\ Holds(concat.out.VALUE) = val

ConcatIsNull == Holds(concat.out.NULL)

\* C28: over every combination of operands encode_concate_by_and is SQL's
\* AND (false if an operand is a non-null false, otherwise NULL if an operand
\* is NULL, otherwise true) and encode_concate_by_or is SQL's OR (true if an
\* operand is a non-null true, otherwise NULL if an operand is NULL,
\* otherwise false).
C28_ThreeValuedConnectives ==
    concat # None =>
        LET dominant == (concat.fn = "or")
        IN  IF \E i \in DOMAIN nulls : NonNull(i, dominant) THEN ConcatIs(dominant)
            ELSE IF SomeNull THEN ConcatIsNull
            ELSE ConcatIs(~dominant)

\* AND of a NULL operand and a non-null false operand has been encoded
C28_Witness ==
    /\ concat # None
    /\ concat.fn = "and"
    /\ SomeNull
    /\ \E i \in DOMAIN nulls : NonNull(i, FALSE)
    /\ ConcatIs(FALSE)

(***************************************************************************)
(* Termination of the bounded search driver                                *)
(***************************************************************************)
\* the result returned: EQUIV any number of times, then one other state, and
\* a times entry for every state
ReturnedShape ==
    dpc = "done" =>
        /\ Len(result.states) = Len(result.times)
        /\ Len(result.states) >= 1
        /\ result.states[Len(result.states)] # "EQUIV"
        /\ \A i \in 1..(Len(result.states) - 1) : result.states[i] = "EQUIV"

\* the clock of the loop is taken once: no step of the loop sets it back, and
\* the step of the driver that finds it past the timeout is its last
OneClock ==
    dpc = "loop" =>
        /\ elapsed' >= elapsed
        /\ (elapsed > timeout /\ <<dpc, result>>' # <<dpc, result>>) => dpc' = "done"

\* C29: process_ends_with_max_timeout returns whatever its workers do, at the
\* latest by the step that finds the clock, started once for the whole ladder,
\* past the timeout; the states it returns are EQUIV zero or more times and
\* then exactly one other state, with as many times as states.
C29_LadderReturns ==
    /\ <>(dpc = "done")
    /\ []ReturnedShape
    /\ [][OneClock]_vars

\* the ladder returned on the timeout after an EQUIV verdict, with a worker
\* still running when the time was up
C29_Witness ==
    /\ dpc = "done"
    /\ Len(result.states) >= 2
    /\ result.states[1] = "EQUIV"
    /\ result.states[Len(result.states)] = "TIMEOUT"
    /\ hist.timed_out = "alive"
    /\ elapsed > timeout

(***************************************************************************)
(* Properties of the benchmark run                                         *)
(***************************************************************************)
\* the records written for pair idx
RecordsOf(idx) == {i \in DOMAIN out_file.lines : out_file.lines[i] = idx}

\* C30: for every benchmark file, the empty one included, and every number of
\* cores train ends with exactly one result record per input pair in its
\* output file: it does not raise, and the assertion on the count holds.
C30_OneRecordPerPair ==
    /\ train_pc # "raised"
    /\ train_pc = "done" =>
          /\ out_file.exists
          /\ Len(out_file.lines) = benchmark
          /\ \A idx \in 1..benchmark : Cardinality(RecordsOf(idx)) = 1

====
